---- MODULE Spec2Model ----
(***************************************************************************)
(* Verification model of the MKL25Z4 security system firmware:             *)
(* storage_mgr.c (persistent configuration store), keypad_driver.c (PIN    *)
(* entry), rfid_driver.c (card protocol engine), security_manager.c        *)
(* (orchestrator) and timer_driver.c (clock).                              *)
(*                                                                         *)
(* Representation.  A char is a one-character string; NUL is the C string  *)
(* terminator and ERASED_BYTE the content of an erased flash byte.  A C    *)
(* char array is a sequence (index 1 is C index 0).  32-bit words are kept *)
(* as their two's-complement value, so 0xFFFFFFFF is -1.                   *)
(***************************************************************************)
EXTENDS Integers, Sequences, FiniteSets, TLC

\* ------------------------------------------------------------------------
\* Program constants
\* ------------------------------------------------------------------------
MAX_STORED_IDS == 50
\* 0xA5A5A5A7 as a two's-complement 32-bit value
STORAGE_MAGIC == -1515870809
\* an erased flash word, 0xFFFFFFFF
ERASED_WORD == -1
NUL == "NUL"
ERASED_BYTE == "xFF"
PIN_FIELD_LEN == 5
PASS_FIELD_LEN == 10

Slots == 0 .. (MAX_STORED_IDS - 1)

\* ------------------------------------------------------------------------
\* C string helpers
\* ------------------------------------------------------------------------
RECURSIVE StrLenFrom(_, _)
StrLenFrom(arr, i) ==
    IF i > Len(arr) \/ arr[i] = NUL THEN 0 ELSE 1 + StrLenFrom(arr, i + 1)

\* strlen: number of chars before the first NUL
StrLen(arr) == StrLenFrom(arr, 1)

\* the C string held by a char array
CStr(arr) == SubSeq(arr, 1, StrLen(arr))

\* strcmp(a, b) == 0
StrEq(a, b) == CStr(a) = CStr(b)

\* strcpy(dst, s): the chars of s and one NUL; the rest of dst keeps its bytes
StrCpy(dst, s) ==
    [i \in 1 .. Len(dst) |->
        IF i <= Len(s) THEN s[i] ELSE IF i = Len(s) + 1 THEN NUL ELSE dst[i]]

\* strncpy(dst, s, n): min(strlen s, n) chars, NUL padding up to n
StrNCpy(dst, s, n) ==
    [i \in 1 .. Len(dst) |->
        IF i <= n THEN (IF i <= Len(s) THEN s[i] ELSE NUL) ELSE dst[i]]

\* dst[k] = c with the C index k
SetCharAt(dst, k, c) == [dst EXCEPT ![k + 1] = c]

\* ------------------------------------------------------------------------
\* SecurityConfig_t and the flash sector
\* ------------------------------------------------------------------------
EmptyTable == [i \in Slots |-> 0]

MkConfig(pin, pass, uids, magic) ==
    [door_pin |-> pin, admin_password |-> pass,
     authorized_uids |-> uids, magic_header |-> magic]

\* a zero-initialised static instance (.bss)
ZeroConfig ==
    MkConfig([i \in 1 .. PIN_FIELD_LEN |-> NUL], [i \in 1 .. PASS_FIELD_LEN |-> NUL],
             EmptyTable, 0)

\* an instance whose bytes are whatever the stack held
JunkConfig ==
    MkConfig([i \in 1 .. PIN_FIELD_LEN |-> "J"], [i \in 1 .. PASS_FIELD_LEN |-> "J"],
             [i \in Slots |-> 74], 74)

\* the sector after FLASH_Erase: every byte 0xFF
ErasedSector ==
    MkConfig([i \in 1 .. PIN_FIELD_LEN |-> ERASED_BYTE],
             [i \in 1 .. PASS_FIELD_LEN |-> ERASED_BYTE],
             [i \in Slots |-> ERASED_WORD], ERASED_WORD)

DefaultPin == <<"1", "2", "3", "4">>
DefaultPass == <<"1", "2", "3", "4", "5", "6">>

\* the compiled-in defaults written over an instance
DefaultsOver(cfg) ==
    MkConfig(StrCpy(cfg.door_pin, DefaultPin), StrCpy(cfg.admin_password, DefaultPass),
             EmptyTable, STORAGE_MAGIC)

\* a run has at most MaxFaults failing flash operations
MaxFaults == 2

\* outcomes of the two flash operations of one Save
FlashOutcomes == {"ok", "erase_fail", "program_fail_blank", "program_fail_partial"}

\* mutant: FLASH_Program is handed a size that stops short of the marker
FlashProgram_Short(inConfig, outcome) ==
    IF outcome = "ok"
    THEN [ErasedSector EXCEPT !.door_pin = inConfig.door_pin,
                              !.admin_password = inConfig.admin_password]
    ELSE ErasedSector

\* FLASH_Program of the record: longwords are written in address order, so a
\* failed program leaves a prefix of the record (none of it, or the two
\* password fields) and the rest erased
FlashProgram(inConfig, outcome) ==
    IF outcome = "ok" THEN inConfig
    ELSE IF outcome = "program_fail_partial"
         THEN [ErasedSector EXCEPT !.door_pin = inConfig.door_pin,
                                   !.admin_password = inConfig.admin_password]
         ELSE ErasedSector

\* Storage_SaveConfig: cache first, then erase and program
Storage_SaveConfig(inConfig, fl, outcome) ==
    [cache |-> inConfig,
     flash |-> IF outcome = "erase_fail" THEN fl ELSE FlashProgram(inConfig, outcome),
     ret   |-> (outcome = "ok"),
     saved |-> TRUE,
     msg   |-> IF outcome = "ok" THEN "Save Success" ELSE "Flash Error"]

\* mutant: the defaults are filled in but never saved
Storage_LoadConfig_NoSave(out, cache, fl, outcome) ==
    IF fl.magic_header = STORAGE_MAGIC
    THEN [out |-> fl, cache |-> cache, flash |-> fl, saved |-> FALSE, ret |-> TRUE,
          msg |-> "none"]
    ELSE [out |-> DefaultsOver(out), cache |-> cache, flash |-> fl, saved |-> FALSE,
          ret |-> TRUE, msg |-> "Loading Defaults"]

\* Storage_LoadConfig(outConfig): the sector if its marker matches, else the
\* defaults, saved at once.  out is the instance handed in, cache the store's
\* cache before the call.
Storage_LoadConfig(out, cache, fl, outcome) ==
    IF fl.magic_header = STORAGE_MAGIC
    THEN [out |-> fl, cache |-> cache, flash |-> fl, saved |-> FALSE, ret |-> TRUE,
          msg |-> "none"]
    ELSE LET d == DefaultsOver(out)
             s == Storage_SaveConfig(d, fl, outcome)
         IN  [out |-> d, cache |-> s.cache, flash |-> s.flash, saved |-> TRUE,
              ret |-> s.ret, msg |-> "Loading Defaults"]

\* (a variant for comparison: the cache is put back when the Save fails)
Storage_UpdatePIN_Rollback(newPin, cache, fl, outcome) ==
    IF Len(newPin) > 4
    THEN [cache |-> cache, flash |-> fl, ret |-> FALSE, saved |-> FALSE,
          msg |-> "none"]
    ELSE LET c == [cache EXCEPT
                     !.door_pin = SetCharAt(StrNCpy(cache.door_pin, newPin, 4), 4, NUL)]
             r == Storage_SaveConfig(c, fl, outcome)
         IN  IF r.ret THEN r ELSE [r EXCEPT !.cache = cache]

\* Storage_UpdatePIN
Storage_UpdatePIN(newPin, cache, fl, outcome) ==
    IF Len(newPin) > 4
    THEN [cache |-> cache, flash |-> fl, ret |-> FALSE, saved |-> FALSE,
          msg |-> "none"]
    ELSE LET c == [cache EXCEPT
                     !.door_pin = SetCharAt(StrNCpy(cache.door_pin, newPin, 4), 4, NUL)]
         IN  Storage_SaveConfig(c, fl, outcome)

\* (a variant for comparison: the field is written before the length test)
Storage_UpdateAdminPass_EarlyWrite(newPass, cache, fl, outcome) ==
    LET c == [cache EXCEPT
                !.admin_password =
                   SetCharAt(StrNCpy(cache.admin_password, newPass, 9), 9, NUL)]
    IN  IF Len(newPass) > 9
        THEN [cache |-> c, flash |-> fl, ret |-> FALSE, saved |-> FALSE,
              msg |-> "none"]
        ELSE Storage_SaveConfig(c, fl, outcome)

\* Storage_UpdateAdminPass
Storage_UpdateAdminPass(newPass, cache, fl, outcome) ==
    IF Len(newPass) > 9
    THEN [cache |-> cache, flash |-> fl, ret |-> FALSE, saved |-> FALSE,
          msg |-> "none"]
    ELSE LET c == [cache EXCEPT
                     !.admin_password =
                        SetCharAt(StrNCpy(cache.admin_password, newPass, 9), 9, NUL)]
         IN  Storage_SaveConfig(c, fl, outcome)

\* the slots holding uid, and the first empty slot
SlotsHolding(uids, uid) == {i \in Slots : uids[i] = uid}

MinOf(S) == CHOOSE x \in S : \A y \in S : x <= y

\* mutant: the duplicate scan is missing
Storage_AddRFID_NoDupCheck(uid, cache, fl, outcome) ==
    IF uid = 0
    THEN [cache |-> cache, flash |-> fl, ret |-> FALSE, saved |-> FALSE,
          msg |-> "none"]
    ELSE IF SlotsHolding(cache.authorized_uids, 0) # {}
    THEN LET i == MinOf(SlotsHolding(cache.authorized_uids, 0))
             c == [cache EXCEPT !.authorized_uids[i] = uid]
         IN  Storage_SaveConfig(c, fl, outcome)
    ELSE [cache |-> cache, flash |-> fl, ret |-> FALSE, saved |-> FALSE,
          msg |-> "Memory Full"]

\* mutant: the empty-slot scan stops one slot early
Storage_AddRFID_ShortScan(uid, cache, fl, outcome) ==
    IF uid = 0
    THEN [cache |-> cache, flash |-> fl, ret |-> FALSE, saved |-> FALSE,
          msg |-> "none"]
    ELSE IF SlotsHolding(cache.authorized_uids, uid) # {}
    THEN [cache |-> cache, flash |-> fl, ret |-> FALSE, saved |-> FALSE,
          msg |-> "already exists"]
    ELSE IF SlotsHolding(cache.authorized_uids, 0) \ {MAX_STORED_IDS - 1} # {}
    THEN LET i == MinOf(SlotsHolding(cache.authorized_uids, 0))
             c == [cache EXCEPT !.authorized_uids[i] = uid]
         IN  Storage_SaveConfig(c, fl, outcome)
    ELSE [cache |-> cache, flash |-> fl, ret |-> FALSE, saved |-> FALSE,
          msg |-> "Memory Full"]

\* (a variant for comparison: the duplicate scan ends at the first empty slot)
Storage_AddRFID_ScanToGap(uid, cache, fl, outcome) ==
    IF uid = 0
    THEN [cache |-> cache, flash |-> fl, ret |-> FALSE, saved |-> FALSE,
          msg |-> "none"]
    ELSE IF \E i \in SlotsHolding(cache.authorized_uids, uid) :
                \A j \in SlotsHolding(cache.authorized_uids, 0) : i < j
    THEN [cache |-> cache, flash |-> fl, ret |-> FALSE, saved |-> FALSE,
          msg |-> "already exists"]
    ELSE IF SlotsHolding(cache.authorized_uids, 0) # {}
    THEN LET i == MinOf(SlotsHolding(cache.authorized_uids, 0))
             c == [cache EXCEPT !.authorized_uids[i] = uid]
         IN  Storage_SaveConfig(c, fl, outcome)
    ELSE [cache |-> cache, flash |-> fl, ret |-> FALSE, saved |-> FALSE,
          msg |-> "Memory Full"]

\* Storage_AddRFID
Storage_AddRFID(uid, cache, fl, outcome) ==
    IF uid = 0
    THEN [cache |-> cache, flash |-> fl, ret |-> FALSE, saved |-> FALSE,
          msg |-> "none"]
    ELSE IF SlotsHolding(cache.authorized_uids, uid) # {}
    THEN [cache |-> cache, flash |-> fl, ret |-> FALSE, saved |-> FALSE,
          msg |-> "already exists"]
    ELSE IF SlotsHolding(cache.authorized_uids, 0) # {}
    THEN LET i == MinOf(SlotsHolding(cache.authorized_uids, 0))
             c == [cache EXCEPT !.authorized_uids[i] = uid]
         IN  Storage_SaveConfig(c, fl, outcome)
    ELSE [cache |-> cache, flash |-> fl, ret |-> FALSE, saved |-> FALSE,
          msg |-> "Memory Full"]

\* Storage_RemoveRFID
Storage_RemoveRFID(uid, cache, fl, outcome) ==
    IF SlotsHolding(cache.authorized_uids, uid) # {}
    THEN LET c == [cache EXCEPT
                     !.authorized_uids =
                        [i \in Slots |-> IF cache.authorized_uids[i] = uid
                                         THEN 0 ELSE cache.authorized_uids[i]]]
         IN  Storage_SaveConfig(c, fl, outcome)
    ELSE [cache |-> cache, flash |-> fl, ret |-> FALSE, saved |-> FALSE,
          msg |-> "not found"]

\* Storage_FactoryReset: def is a local, its bytes past the terminators are
\* whatever the stack held (stackCfg)
Storage_FactoryReset(stackCfg, fl, outcome) ==
    Storage_SaveConfig(DefaultsOver(stackCfg), fl, outcome)

\* ------------------------------------------------------------------------
\* 32-bit arithmetic of the millisecond counter (timer_driver.c).  A uint32_t
\* is kept as its two's-complement value; the halves keep every intermediate
\* result inside 32 bits.
\* ------------------------------------------------------------------------
HALF == 65536

Lo16(x) == x % HALF
Hi16(x) == x \div HALF
WrapHi(h) == ((h + 32768) % HALF) - 32768

\* (a + b) mod 2^32
Add32(a, b) ==
    LET lo == Lo16(a) + Lo16(b)
        hi == Hi16(a) + Hi16(b) + (lo \div HALF)
    IN  WrapHi(hi) * HALF + (lo % HALF)

\* (a - b) mod 2^32
Sub32(a, b) ==
    LET lo == Lo16(a) - Lo16(b)
        hi == Hi16(a) - Hi16(b) + (lo \div HALF)
    IN  WrapHi(hi) * HALF + (lo % HALF)

\* unsigned a < d and a >= d for a duration or limit 0 <= d < 2^31
Below32(a, d) == a >= 0 /\ a < d
AtLeast32(a, d) == ~Below32(a, d)

\* mutant: the deadline startTick + durationMs compared with the counter
IsTimeout_Deadline(now, startTick, durationMs) ==
    AtLeast32(now, Add32(startTick, durationMs))

\* IsTimeout(startTick, durationMs) read at the tick now
IsTimeout(now, startTick, durationMs) == AtLeast32(Sub32(now, startTick), durationMs)

\* ------------------------------------------------------------------------
\* Keypad PIN entry (keypad_driver.c)
\* ------------------------------------------------------------------------
PASS_LEN == 4
TIMEOUT_MS == 5000

\* key_map[row][col], rows and columns counted from 1 here
KeyMap ==
    << <<"1", "2", "3", "A">>, <<"4", "5", "6", "B">>,
       <<"7", "8", "9", "C">>, <<"*", "0", "#", "D">> >>

\* Security_CheckPassword: strcmp against the cached door PIN
Security_CheckPassword(inputPin, cache) == StrEq(inputPin, cache.door_pin)

\* Keypad_CheckPassword with an abort key that leaves the buffer as it is
Keypad_CheckPassword_KeepOnAbort(now, kp, cache) ==
    LET expired == kp.index > 0 /\ IsTimeout(now, kp.last, TIMEOUT_MS)
        idx0 == IF expired THEN 0 ELSE kp.index
        buf0 == IF expired THEN SetCharAt(kp.buffer, 0, NUL) ELSE kp.buffer
        key == kp.pressed
        idx1 == IF idx0 < PASS_LEN THEN idx0 + 1 ELSE idx0
        buf1 == IF idx0 < PASS_LEN THEN SetCharAt(buf0, idx0, key) ELSE buf0
        buf2 == SetCharAt(buf1, PASS_LEN, NUL)
    IN  IF key = NUL
        THEN [ret |-> 0, pressed |-> NUL, buffer |-> buf0, index |-> idx0,
              last |-> kp.last, key |-> NUL, expired |-> expired]
        ELSE IF key = "#"
        THEN [ret |-> 2, pressed |-> NUL, buffer |-> buf0, index |-> idx0,
              last |-> now, key |-> key, expired |-> expired]
        ELSE IF idx1 = PASS_LEN
        THEN [ret |-> IF Security_CheckPassword(buf2, cache) THEN 1 ELSE -1,
              pressed |-> NUL, buffer |-> buf2, index |-> 0,
              last |-> now, key |-> key, expired |-> expired]
        ELSE [ret |-> 0, pressed |-> NUL, buffer |-> buf1, index |-> idx1,
              last |-> now, key |-> key, expired |-> expired]

\* a variant without the 5000 ms rule
Keypad_CheckPassword_NoTimeout(now, kp, cache) ==
    LET expired == FALSE
        idx0 == IF expired THEN 0 ELSE kp.index
        buf0 == IF expired THEN SetCharAt(kp.buffer, 0, NUL) ELSE kp.buffer
        key == kp.pressed
        idx1 == IF idx0 < PASS_LEN THEN idx0 + 1 ELSE idx0
        buf1 == IF idx0 < PASS_LEN THEN SetCharAt(buf0, idx0, key) ELSE buf0
        buf2 == SetCharAt(buf1, PASS_LEN, NUL)
    IN  IF key = NUL
        THEN [ret |-> 0, pressed |-> NUL, buffer |-> buf0, index |-> idx0,
              last |-> kp.last, key |-> NUL, expired |-> expired]
        ELSE IF key = "#"
        THEN [ret |-> 2, pressed |-> NUL, buffer |-> buf0, index |-> 0,
              last |-> now, key |-> key, expired |-> expired]
        ELSE IF idx1 = PASS_LEN
        THEN [ret |-> IF Security_CheckPassword(buf2, cache) THEN 1 ELSE -1,
              pressed |-> NUL, buffer |-> buf2, index |-> 0,
              last |-> now, key |-> key, expired |-> expired]
        ELSE [ret |-> 0, pressed |-> NUL, buffer |-> buf1, index |-> idx1,
              last |-> now, key |-> key, expired |-> expired]

\* Keypad_CheckPassword at the tick now.  kp holds g_pressed_key, kp_buffer,
\* kp_index and last_key_time_kp; the result holds them afterwards, the value
\* returned, the key consumed (NUL if none) and whether the buffer timed out.
Keypad_CheckPassword(now, kp, cache) ==
    LET expired == kp.index > 0 /\ IsTimeout(now, kp.last, TIMEOUT_MS)
        idx0 == IF expired THEN 0 ELSE kp.index
        buf0 == IF expired THEN SetCharAt(kp.buffer, 0, NUL) ELSE kp.buffer
        key == kp.pressed
        idx1 == IF idx0 < PASS_LEN THEN idx0 + 1 ELSE idx0
        buf1 == IF idx0 < PASS_LEN THEN SetCharAt(buf0, idx0, key) ELSE buf0
        buf2 == SetCharAt(buf1, PASS_LEN, NUL)
    IN  IF key = NUL
        THEN [ret |-> 0, pressed |-> NUL, buffer |-> buf0, index |-> idx0,
              last |-> kp.last, key |-> NUL, expired |-> expired]
        ELSE IF key = "#"
        THEN [ret |-> 2, pressed |-> NUL, buffer |-> buf0, index |-> 0,
              last |-> now, key |-> key, expired |-> expired]
        ELSE IF idx1 = PASS_LEN
        THEN [ret |-> IF Security_CheckPassword(buf2, cache) THEN 1 ELSE -1,
              pressed |-> NUL, buffer |-> buf2, index |-> 0,
              last |-> now, key |-> key, expired |-> expired]
        ELSE [ret |-> 0, pressed |-> NUL, buffer |-> buf1, index |-> idx1,
              last |-> now, key |-> key, expired |-> expired]

\* Security_SetPassword: exactly 4 chars, each a digit, A-D, * or #, then
\* Storage_UpdatePIN
PinCharOk(c) ==
    \/ c \in {"0", "1", "2", "3", "4", "5", "6", "7", "8", "9"}
    \/ c \in {"A", "B", "C", "D"}
    \/ c \in {"*", "#"}

Security_SetPassword(newPassword, cache, fl, outcome) ==
    IF Len(newPassword) # 4
    THEN [cache |-> cache, flash |-> fl, ret |-> FALSE, saved |-> FALSE,
          msg |-> "PIN must be EXACTLY 4 characters"]
    ELSE IF \E i \in 1 .. 4 : ~PinCharOk(newPassword[i])
    THEN [cache |-> cache, flash |-> fl, ret |-> FALSE, saved |-> FALSE,
          msg |-> "PIN Invalid"]
    ELSE Storage_UpdatePIN(newPassword, cache, fl, outcome)

\* Security_CheckAdminPassword: strcmp against the cached admin password
Security_CheckAdminPassword(inputPass, cache) == StrEq(inputPass, cache.admin_password)

\* Security_SetAdminPassword: 1 to 9 chars, then Storage_UpdateAdminPass
Security_SetAdminPassword(newPassword, cache, fl, outcome) ==
    IF Len(newPassword) < 1 \/ Len(newPassword) > 9
    THEN [cache |-> cache, flash |-> fl, ret |-> FALSE, saved |-> FALSE,
          msg |-> "Pass must be 1-9 chars"]
    ELSE Storage_UpdateAdminPass(newPassword, cache, fl, outcome)

\* ------------------------------------------------------------------------
\* Admin link (admin_mgr.c)
\* ------------------------------------------------------------------------
HexDigits ==
    <<"0", "1", "2", "3", "4", "5", "6", "7", "8", "9", "A", "B", "C", "D", "E", "F">>

\* the value of a hex digit, -1 for any other char
HexVal(c) ==
    IF \E i \in 1 .. 16 : HexDigits[i] = c
    THEN (CHOOSE i \in 1 .. 16 : HexDigits[i] = c) - 1
    ELSE -1

\* strtoul(s, NULL, 16) from char i on, with acc the value of the n
\* significant digits converted so far: conversion stops at the first char
\* that is no hex digit; a ninth significant digit yields ULONG_MAX.  The
\* word is held as the 32-bit two's complement number with the same bits, as
\* identifiers are elsewhere.
RECURSIVE StrToULFrom(_, _, _, _)
StrToULFrom(s, i, acc, n) ==
    IF i > Len(s) \/ HexVal(s[i]) < 0 THEN acc
    ELSE IF n = 8 THEN -1
    ELSE StrToULFrom(s, i + 1,
                     (IF acc >= 134217728 THEN acc - 268435456 ELSE acc) * 16 + HexVal(s[i]),
                     IF acc = 0 /\ HexVal(s[i]) = 0 THEN 0 ELSE n + 1)

StrToUL(s) == StrToULFrom(s, 1, 0, 0)

\* a command that leaves the store alone and prints msg
NoStoreOp(cache, fl, msg) ==
    [cache |-> cache, flash |-> fl, ret |-> FALSE, saved |-> FALSE, msg |-> msg]

\* Admin_ProcessCommand without the session test
Admin_ProcessCommand_NoSession(cmd, logged, cache, fl, outcome) ==
    IF cmd.verb = "LOGIN"
    THEN IF cmd.token = <<>>
         THEN [logged |-> logged, arg |-> 0, r |-> NoStoreOp(cache, fl, "Missing Password")]
         ELSE IF Security_CheckAdminPassword(cmd.token, cache)
         THEN [logged |-> TRUE, arg |-> 0, r |-> NoStoreOp(cache, fl, "LOGIN SUCCESS")]
         ELSE [logged |-> logged, arg |-> 0, r |-> NoStoreOp(cache, fl, "LOGIN FAILED")]
    ELSE IF cmd.verb = "NEWPASS" /\ cmd.token # <<>>
    THEN [logged |-> logged, arg |-> cmd.token,
          r |-> Security_SetPassword(cmd.token, cache, fl, outcome)]
    ELSE IF cmd.verb = "ADDID" /\ cmd.token # <<>> /\ StrToUL(cmd.token) # 0
    THEN [logged |-> logged, arg |-> StrToUL(cmd.token),
          r |-> Storage_AddRFID(StrToUL(cmd.token), cache, fl, outcome)]
    ELSE IF cmd.verb = "DELID" /\ cmd.token # <<>>
    THEN [logged |-> logged, arg |-> StrToUL(cmd.token),
          r |-> Storage_RemoveRFID(StrToUL(cmd.token), cache, fl, outcome)]
    ELSE IF cmd.verb = "ADMINPASS" /\ cmd.token # <<>>
    THEN [logged |-> logged, arg |-> cmd.token,
          r |-> Security_SetAdminPassword(cmd.token, cache, fl, outcome)]
    ELSE [logged |-> logged, arg |-> 0, r |-> NoStoreOp(cache, fl, "none")]

\* Admin_ProcessCommand for the command cmd = [verb, token] (token <<>>: none
\* given) with g_admin_logged_in = logged: the session flag afterwards, the
\* argument handed to the store and the store operation's result
Admin_ProcessCommand(cmd, logged, cache, fl, outcome) ==
    IF cmd.verb = "LOGIN"
    THEN IF cmd.token = <<>>
         THEN [logged |-> logged, arg |-> 0, r |-> NoStoreOp(cache, fl, "Missing Password")]
         ELSE IF Security_CheckAdminPassword(cmd.token, cache)
         THEN [logged |-> TRUE, arg |-> 0, r |-> NoStoreOp(cache, fl, "LOGIN SUCCESS")]
         ELSE [logged |-> logged, arg |-> 0, r |-> NoStoreOp(cache, fl, "LOGIN FAILED")]
    ELSE IF ~logged
    THEN [logged |-> logged, arg |-> 0, r |-> NoStoreOp(cache, fl, "ACCESS DENIED")]
    ELSE IF cmd.verb = "NEWPASS" /\ cmd.token # <<>>
    THEN [logged |-> logged, arg |-> cmd.token,
          r |-> Security_SetPassword(cmd.token, cache, fl, outcome)]
    ELSE IF cmd.verb = "ADDID" /\ cmd.token # <<>> /\ StrToUL(cmd.token) # 0
    THEN [logged |-> logged, arg |-> StrToUL(cmd.token),
          r |-> Storage_AddRFID(StrToUL(cmd.token), cache, fl, outcome)]
    ELSE IF cmd.verb = "DELID" /\ cmd.token # <<>>
    THEN [logged |-> logged, arg |-> StrToUL(cmd.token),
          r |-> Storage_RemoveRFID(StrToUL(cmd.token), cache, fl, outcome)]
    ELSE IF cmd.verb = "ADMINPASS" /\ cmd.token # <<>>
    THEN [logged |-> logged, arg |-> cmd.token,
          r |-> Security_SetAdminPassword(cmd.token, cache, fl, outcome)]
    ELSE [logged |-> logged, arg |-> 0, r |-> NoStoreOp(cache, fl, "none")]

\* ------------------------------------------------------------------------
\* Card reader (rfid_driver.c)
\* ------------------------------------------------------------------------
\* an identifier is the four bytes read from the card; the fifth byte, their
\* checksum, is kept only as the verdict of the checksum test
ZeroUid == <<0, 0, 0, 0>>
NoCard == <<>>

\* RFID_GetLastUID: the four bytes packed into one 32-bit word
RFID_GetLastUID(b) ==
    (IF b[1] >= 128 THEN b[1] - 256 ELSE b[1]) * 16777216
        + b[2] * 65536 + b[3] * 256 + b[4]

\* what the reader chip reports to one RFID_Tick: no interrupt flag yet,
\* a completed exchange, one with error flags, one whose checksum is wrong
ChipReports == {"none", "ok", "error", "badsum"}

\* a variant that gives up a wake command one tick later
RFID_Tick_Late(now, rf, ans, uid) ==
    IF rf.state = "RFID_IDLE"
    THEN LET cleared == [rf EXCEPT !.last_uid =
                            IF IsTimeout(now, rf.last_uid_time, 500)
                            THEN ZeroUid ELSE rf.last_uid]
         IN  IF IsTimeout(now, rf.next_scan_time, 100)
             THEN [cleared EXCEPT !.next_scan_time = now,
                                  !.state = "RFID_REQ_SENT",
                                  !.timer = now]
             ELSE cleared
    ELSE IF rf.state = "RFID_REQ_SENT"
    THEN IF IsTimeout(now, rf.timer, 26) THEN [rf EXCEPT !.state = "RFID_IDLE"]
         ELSE IF ans = "none" THEN rf
         ELSE IF ans = "error" THEN [rf EXCEPT !.state = "RFID_IDLE"]
         ELSE [rf EXCEPT !.state = "RFID_ANTICOLL_SENT", !.timer = now]
    ELSE IF rf.state = "RFID_ANTICOLL_SENT"
    THEN IF IsTimeout(now, rf.timer, 25) THEN [rf EXCEPT !.state = "RFID_IDLE"]
         ELSE IF ans = "none" THEN rf
         ELSE IF ans = "ok" /\ uid # rf.last_uid
         THEN [rf EXCEPT !.last_uid = uid,
                         !.last_uid_time = now,
                         !.result = 1,
                         !.state = "RFID_IDLE"]
         ELSE [rf EXCEPT !.state = "RFID_IDLE"]
    ELSE [rf EXCEPT !.state = "RFID_IDLE"]

\* RFID_Tick at tick now on the driver's statics rf, with the chip reporting
\* ans and, for a completed anticollision, the identifier uid
RFID_Tick(now, rf, ans, uid) ==
    IF rf.state = "RFID_IDLE"
    THEN LET cleared == [rf EXCEPT !.last_uid =
                            IF IsTimeout(now, rf.last_uid_time, 500)
                            THEN ZeroUid ELSE rf.last_uid]
         IN  IF IsTimeout(now, rf.next_scan_time, 100)
             THEN [cleared EXCEPT !.next_scan_time = now,
                                  !.state = "RFID_REQ_SENT",
                                  !.timer = now]
             ELSE cleared
    ELSE IF rf.state = "RFID_REQ_SENT"
    THEN IF IsTimeout(now, rf.timer, 25) THEN [rf EXCEPT !.state = "RFID_IDLE"]
         ELSE IF ans = "none" THEN rf
         ELSE IF ans = "error" THEN [rf EXCEPT !.state = "RFID_IDLE"]
         ELSE [rf EXCEPT !.state = "RFID_ANTICOLL_SENT", !.timer = now]
    ELSE IF rf.state = "RFID_ANTICOLL_SENT"
    THEN IF IsTimeout(now, rf.timer, 25) THEN [rf EXCEPT !.state = "RFID_IDLE"]
         ELSE IF ans = "none" THEN rf
         ELSE IF ans = "ok" /\ uid # rf.last_uid
         THEN [rf EXCEPT !.last_uid = uid,
                         !.last_uid_time = now,
                         !.result = 1,
                         !.state = "RFID_IDLE"]
         ELSE [rf EXCEPT !.state = "RFID_IDLE"]
    ELSE [rf EXCEPT !.state = "RFID_IDLE"]

\* RFID_GetLastScanResult / RFID_CheckScan: read the new-card flag and clear it
RFID_GetLastScanResult(rf) == [res |-> rf.result, rf |-> [rf EXCEPT !.result = 0]]

\* ------------------------------------------------------------------------
\* Orchestrator (security_manager.c)
\* ------------------------------------------------------------------------
ENTRY_DELAY_MS == 5000
DISARM_WINDOW_MS == 5000
ALARM_BLINK_MS == 500
STARTUP_DELAY_MS == 2000
AUTO_LOCK_DELAY_MS == 1000
EXIT_DELAY_MS == 10000
BRUTE_FORCE_LIMIT == 3
LOCKOUT_TIME_MS == 10000
INITIAL_VOLUME == 10
MAX_VOLUME == 50
AUTH_VALID == 1
AUTH_INVALID == -1
AUTH_NONE == 0

\* Buzzer_On: volume limited to 1..50, duty = pitch * volume / 100
Buzzer_On(pitch, volume) ==
    LET v == IF volume > 50 THEN 50 ELSE IF volume < 1 THEN 1 ELSE volume
    IN  [MOD |-> pitch, CnV |-> (pitch * v) \div 100]

\* The board as one record m for the functions of the main context:
\*   m.sec   the statics of security_manager.c
\*   m.kp    the statics of the keypad,  m.rf  those of the card reader
\*   m.pir   g_pirDetected,  m.buz  the buzzer,  m.led  the alarm LED,
\*   m.servo the lock,       m.cyc  what the current cycle evaluated
Buzzer_OnM(buz, pitch, volume) ==
    [buz EXCEPT !.MOD = Buzzer_On(pitch, volume).MOD,
                !.CnV = Buzzer_On(pitch, volume).CnV]

Buzzer_Off(buz) == [buz EXCEPT !.CnV = 0]

Buzzer_Beep(buz, duration_ms) ==
    [Buzzer_OnM(buz, 1000, 50) EXCEPT !.timeout = duration_ms]

\* the lookup of an identifier word in the authorized table
UidFound(cache, uid) ==
    \E i \in Slots : cache.authorized_uids[i] # 0 /\ cache.authorized_uids[i] = uid

\* a cycle that has evaluated nothing
NoCycle ==
    [processed |-> FALSE, state |-> "STATE_TRIGGERED", now |-> 0, evaluated |-> FALSE,
     auth |-> AUTH_NONE, kp |-> 0, key |-> NUL, expired |-> FALSE, rf |-> 0,
     rf_auth |-> AUTH_NONE, uid |-> 0, found |-> FALSE, pir |-> FALSE,
     opened |-> FALSE, closed |-> FALSE, drained |-> FALSE]

\* Check_Auth: Keypad_CheckPassword, then RFID_CheckScan and the table lookup
Check_Auth_InvalidFirst(now, m, cache) ==
    LET Resolve(k, scan, scannedUid, found) ==
            LET rf_auth == IF scan.res > 0
                           THEN (IF found THEN AUTH_VALID ELSE AUTH_INVALID)
                           ELSE AUTH_NONE
                auth == IF k.ret = -1 \/ rf_auth = AUTH_INVALID THEN AUTH_INVALID
                        ELSE IF k.ret = 1 \/ rf_auth = AUTH_VALID THEN AUTH_VALID
                        ELSE AUTH_NONE
            IN  [m EXCEPT !.kp = [pressed |-> k.pressed, buffer |-> k.buffer,
                                  index |-> k.index, last |-> k.last],
                          !.rf = scan.rf,
                          !.buz = IF k.key # NUL THEN Buzzer_Beep(m.buz, 30) ELSE m.buz,
                          !.cyc = [m.cyc EXCEPT !.evaluated = TRUE, !.auth = auth,
                                                !.kp = k.ret, !.key = k.key,
                                                !.expired = k.expired, !.rf = scan.res,
                                                !.rf_auth = rf_auth,
                                                !.uid = IF scan.res > 0 THEN scannedUid ELSE 0,
                                                !.found = (scan.res > 0 /\ found)]]
    IN  Resolve(Keypad_CheckPassword(now, m.kp, cache),
                RFID_GetLastScanResult(m.rf),
                RFID_GetLastUID(m.rf.last_uid),
                UidFound(cache, RFID_GetLastUID(m.rf.last_uid)))

Check_Auth(now, m, cache) ==
    LET Resolve(k, scan, scannedUid, found) ==
            LET rf_auth == IF scan.res > 0
                           THEN (IF found THEN AUTH_VALID ELSE AUTH_INVALID)
                           ELSE AUTH_NONE
                auth == IF k.ret = 1 \/ rf_auth = AUTH_VALID THEN AUTH_VALID
                        ELSE IF k.ret = -1 \/ rf_auth = AUTH_INVALID THEN AUTH_INVALID
                        ELSE AUTH_NONE
            IN  [m EXCEPT !.kp = [pressed |-> k.pressed, buffer |-> k.buffer,
                                  index |-> k.index, last |-> k.last],
                          !.rf = scan.rf,
                          !.buz = IF k.key # NUL THEN Buzzer_Beep(m.buz, 30) ELSE m.buz,
                          !.cyc = [m.cyc EXCEPT !.evaluated = TRUE, !.auth = auth,
                                                !.kp = k.ret, !.key = k.key,
                                                !.expired = k.expired, !.rf = scan.res,
                                                !.rf_auth = rf_auth,
                                                !.uid = IF scan.res > 0 THEN scannedUid ELSE 0,
                                                !.found = (scan.res > 0 /\ found)]]
    IN  Resolve(Keypad_CheckPassword(now, m.kp, cache),
                RFID_GetLastScanResult(m.rf),
                RFID_GetLastUID(m.rf.last_uid),
                UidFound(cache, RFID_GetLastUID(m.rf.last_uid)))

\* the evaluation written inline in STATE_ARMED: kp, rf, the table lookup, and
\* the outcome the if / else-if chain selects
Armed_Auth(now, m, cache) ==
    LET Inline(kp, rf, uid, found) ==
            LET rf_auth == IF rf.res > 0
                           THEN (IF found THEN AUTH_VALID ELSE AUTH_INVALID)
                           ELSE AUTH_NONE
                auth == IF kp.ret = 1 \/ rf_auth = AUTH_VALID THEN AUTH_VALID
                        ELSE IF kp.ret = -1 \/ rf_auth = AUTH_INVALID THEN AUTH_INVALID
                        ELSE AUTH_NONE
            IN  [m EXCEPT !.kp = [pressed |-> kp.pressed, buffer |-> kp.buffer,
                                  index |-> kp.index, last |-> kp.last],
                          !.rf = rf.rf,
                          !.buz = IF kp.key # NUL THEN Buzzer_Beep(m.buz, 30) ELSE m.buz,
                          !.cyc = [m.cyc EXCEPT !.evaluated = TRUE, !.auth = auth,
                                                !.kp = kp.ret, !.key = kp.key,
                                                !.expired = kp.expired, !.rf = rf.res,
                                                !.rf_auth = rf_auth,
                                                !.uid = IF rf.res > 0 THEN uid ELSE 0,
                                                !.found = (rf.res > 0 /\ found)]]
    IN  Inline(Keypad_CheckPassword(now, m.kp, cache),
                RFID_GetLastScanResult(m.rf),
                RFID_GetLastUID(m.rf.last_uid),
                UidFound(cache, RFID_GetLastUID(m.rf.last_uid)))

Check_Brute_Force_Late(now, m) ==
    LET n == (m.sec.failedAttempts + 1) % 256
    IN  IF n > BRUTE_FORCE_LIMIT
        THEN [m EXCEPT !.sec = [m.sec EXCEPT !.failedAttempts = n,
                                             !.currentState = "STATE_LOCKED",
                                             !.stateEntryTime = now,
                                             !.alarmVolume = MAX_VOLUME],
                       !.buz = Buzzer_OnM(m.buz, 2000, MAX_VOLUME),
                       !.led = TRUE]
        ELSE [m EXCEPT !.sec = [m.sec EXCEPT !.failedAttempts = n]]

Check_Brute_Force(now, m) ==
    LET n == (m.sec.failedAttempts + 1) % 256
    IN  IF n >= BRUTE_FORCE_LIMIT
        THEN [m EXCEPT !.sec = [m.sec EXCEPT !.failedAttempts = n,
                                             !.currentState = "STATE_LOCKED",
                                             !.stateEntryTime = now,
                                             !.alarmVolume = MAX_VOLUME],
                       !.buz = Buzzer_OnM(m.buz, 2000, MAX_VOLUME),
                       !.led = TRUE]
        ELSE [m EXCEPT !.sec = [m.sec EXCEPT !.failedAttempts = n]]

EnterDisarmed_KeepsCount(now, sec) ==
    [sec EXCEPT !.currentState = "STATE_DISARMED",
                !.stateEntryTime = now,
                !.doorUnlockedMsg = FALSE,
                !.waitingForAutoLock = FALSE]

\* the assignments shared by every transition into STATE_DISARMED
EnterDisarmed(now, sec) ==
    [sec EXCEPT !.currentState = "STATE_DISARMED",
                !.stateEntryTime = now,
                !.doorUnlockedMsg = FALSE,
                !.waitingForAutoLock = FALSE,
                !.failedAttempts = 0]

\* RFID_GetLastScanResult(); Keypad_GetKeyNonBlocking(); with the results dropped
FlushInputs(m) ==
    [m EXCEPT !.rf = RFID_GetLastScanResult(m.rf).rf,
              !.kp = [m.kp EXCEPT !.pressed = NUL],
              !.cyc = [m.cyc EXCEPT !.drained = TRUE]]

Update_Armed(now, m, cache) ==
    LET After(a) ==
            IF a.cyc.auth = AUTH_VALID
            THEN [a EXCEPT !.buz = Buzzer_Beep(a.buz, 200),
                           !.sec = EnterDisarmed(now, a.sec)]
            ELSE IF a.cyc.auth = AUTH_INVALID
            THEN Check_Brute_Force(now, a)
            ELSE LET b == [a EXCEPT !.pir = FALSE, !.cyc = [a.cyc EXCEPT !.pir = a.pir]]
                 IN  IF a.pir \/ a.cyc.kp = 2
                     THEN [b EXCEPT !.servo = "closed",
                                    !.sec = [b.sec EXCEPT !.currentState = "STATE_ENTRY_DELAY",
                                                          !.stateEntryTime = now]]
                     ELSE b
    IN  After(Armed_Auth(now, m, cache))

\* a variant in which a wrong credential starts the entry delay anew
Update_EntryDelay_Rearm(now, m, cache) ==
    LET t == IF IsTimeout(now, m.sec.stateEntryTime, ENTRY_DELAY_MS)
             THEN [m EXCEPT !.sec = [m.sec EXCEPT !.alarmVolume = INITIAL_VOLUME,
                                                  !.currentState = "STATE_TRIGGERED",
                                                  !.lastAlarmToggle = now]]
             ELSE m
        After(a) ==
            IF a.cyc.auth = AUTH_VALID
            THEN [a EXCEPT !.buz = Buzzer_Beep(a.buz, 200),
                           !.sec = EnterDisarmed(now, a.sec)]
            ELSE IF a.cyc.auth = AUTH_INVALID
            THEN Check_Brute_Force(now, [a EXCEPT !.buz = Buzzer_Beep(a.buz, 800),
                                                  !.sec.stateEntryTime = now])
            ELSE a
    IN  After(Check_Auth(now, t, cache))

Update_EntryDelay(now, m, cache) ==
    LET t == IF IsTimeout(now, m.sec.stateEntryTime, ENTRY_DELAY_MS)
             THEN [m EXCEPT !.sec = [m.sec EXCEPT !.alarmVolume = INITIAL_VOLUME,
                                                  !.currentState = "STATE_TRIGGERED",
                                                  !.lastAlarmToggle = now]]
             ELSE m
        After(a) ==
            IF a.cyc.auth = AUTH_VALID
            THEN [a EXCEPT !.buz = Buzzer_Beep(a.buz, 200),
                           !.sec = EnterDisarmed(now, a.sec)]
            ELSE IF a.cyc.auth = AUTH_INVALID
            THEN Check_Brute_Force(now, [a EXCEPT !.buz = Buzzer_Beep(a.buz, 800)])
            ELSE a
    IN  After(Check_Auth(now, t, cache))

Update_Triggered_NoCap(now, m, cache) ==
    LET t == IF IsTimeout(now, m.sec.lastAlarmToggle, ALARM_BLINK_MS)
             THEN LET on == ~m.sec.toggleTriggered
                  IN  [m EXCEPT !.sec = [m.sec EXCEPT !.lastAlarmToggle = now,
                                                      !.toggleTriggered = on],
                                !.buz = Buzzer_OnM(m.buz, IF on THEN 1000 ELSE 500,
                                                   m.sec.alarmVolume),
                                !.led = on]
             ELSE m
        After(a) ==
            IF a.cyc.auth = AUTH_VALID
            THEN [a EXCEPT !.buz = Buzzer_Beep(Buzzer_Off(a.buz), 200),
                           !.led = FALSE,
                           !.sec = EnterDisarmed(now, a.sec)]
            ELSE IF a.cyc.auth = AUTH_INVALID
            THEN LET v == a.sec.alarmVolume + 10
                 IN  Check_Brute_Force(now,
                         [a EXCEPT !.sec = [a.sec EXCEPT !.alarmVolume =
                                               v]])
            ELSE a
    IN  After(Check_Auth(now, t, cache))

Update_Triggered(now, m, cache) ==
    LET t == IF IsTimeout(now, m.sec.lastAlarmToggle, ALARM_BLINK_MS)
             THEN LET on == ~m.sec.toggleTriggered
                  IN  [m EXCEPT !.sec = [m.sec EXCEPT !.lastAlarmToggle = now,
                                                      !.toggleTriggered = on],
                                !.buz = Buzzer_OnM(m.buz, IF on THEN 1000 ELSE 500,
                                                   m.sec.alarmVolume),
                                !.led = on]
             ELSE m
        After(a) ==
            IF a.cyc.auth = AUTH_VALID
            THEN [a EXCEPT !.buz = Buzzer_Beep(Buzzer_Off(a.buz), 200),
                           !.led = FALSE,
                           !.sec = EnterDisarmed(now, a.sec)]
            ELSE IF a.cyc.auth = AUTH_INVALID
            THEN LET v == a.sec.alarmVolume + 10
                 IN  Check_Brute_Force(now,
                         [a EXCEPT !.sec = [a.sec EXCEPT !.alarmVolume =
                                               IF v > MAX_VOLUME THEN MAX_VOLUME ELSE v]])
            ELSE a
    IN  After(Check_Auth(now, t, cache))

Update_Locked_KeepsCount(now, m) ==
    LET t == IF IsTimeout(now, m.sec.lastAlarmToggle, 100)
             THEN LET on == ~m.sec.toggleLocked
                  IN  [m EXCEPT !.sec = [m.sec EXCEPT !.lastAlarmToggle = now,
                                                      !.toggleLocked = on],
                                !.buz = Buzzer_OnM(m.buz, IF on THEN 2500 ELSE 1500,
                                                   m.sec.alarmVolume),
                                !.led = on]
             ELSE m
        f == FlushInputs(t)
    IN  IF IsTimeout(now, f.sec.stateEntryTime, LOCKOUT_TIME_MS)
        THEN FlushInputs([f EXCEPT !.sec = [f.sec EXCEPT !.currentState = "STATE_TRIGGERED",
                                                         !.lastAlarmToggle = now]])
        ELSE f

Update_Locked(now, m) ==
    LET t == IF IsTimeout(now, m.sec.lastAlarmToggle, 100)
             THEN LET on == ~m.sec.toggleLocked
                  IN  [m EXCEPT !.sec = [m.sec EXCEPT !.lastAlarmToggle = now,
                                                      !.toggleLocked = on],
                                !.buz = Buzzer_OnM(m.buz, IF on THEN 2500 ELSE 1500,
                                                   m.sec.alarmVolume),
                                !.led = on]
             ELSE m
        f == FlushInputs(t)
    IN  IF IsTimeout(now, f.sec.stateEntryTime, LOCKOUT_TIME_MS)
        THEN FlushInputs([f EXCEPT !.sec = [f.sec EXCEPT !.currentState = "STATE_TRIGGERED",
                                                         !.lastAlarmToggle = now,
                                                         !.failedAttempts = 0]])
        ELSE f

\* a variant that arms without reading the motion flag
Update_ExitDelay_KeepMotion(now, m) ==
    LET t == IF IsTimeout(now, m.sec.lastAlarmToggle, 1000)
             THEN LET on == ~m.sec.toggleExitDelay
                  IN  [m EXCEPT !.sec = [m.sec EXCEPT !.lastAlarmToggle = now,
                                                      !.toggleExitDelay = on],
                                !.led = on]
             ELSE m
    IN  IF IsTimeout(now, t.sec.stateEntryTime, EXIT_DELAY_MS)
        THEN FlushInputs([t EXCEPT !.sec = [t.sec EXCEPT !.currentState = "STATE_ARMED"],
                                   !.led = FALSE])
        ELSE t

Update_ExitDelay(now, m) ==
    LET t == IF IsTimeout(now, m.sec.lastAlarmToggle, 1000)
             THEN LET on == ~m.sec.toggleExitDelay
                  IN  [m EXCEPT !.sec = [m.sec EXCEPT !.lastAlarmToggle = now,
                                                      !.toggleExitDelay = on],
                                !.led = on]
             ELSE m
    IN  IF IsTimeout(now, t.sec.stateEntryTime, EXIT_DELAY_MS)
        THEN FlushInputs([t EXCEPT !.sec = [t.sec EXCEPT !.currentState = "STATE_ARMED"],
                                   !.led = FALSE,
                                   !.pir = FALSE])
        ELSE t

\* (a variant for comparison: the auto-lock phase without its latch, the
\* timestamp taken again in every pass of that phase)
Update_Disarmed_NoLatch(now, m) ==
    LET elapsed == Sub32(now, m.sec.stateEntryTime)
    IN  IF Below32(elapsed, DISARM_WINDOW_MS)
        THEN IF ~m.sec.doorUnlockedMsg
             THEN [m EXCEPT !.servo = "open",
                            !.sec = [m.sec EXCEPT !.doorUnlockedMsg = TRUE],
                            !.cyc = [m.cyc EXCEPT !.opened = TRUE]]
             ELSE m
        ELSE LET c == [m EXCEPT !.servo = "closed",
                                !.sec = [m.sec EXCEPT !.stateEntryTime = now,
                                                      !.waitingForAutoLock = TRUE],
                                !.cyc = [m.cyc EXCEPT !.closed = TRUE]]
             IN  IF IsTimeout(now, c.sec.stateEntryTime, AUTO_LOCK_DELAY_MS)
                 THEN [c EXCEPT !.sec = [c.sec EXCEPT !.currentState = "STATE_EXIT_DELAY",
                                                      !.stateEntryTime = now,
                                                      !.waitingForAutoLock = FALSE]]
                 ELSE c

\* a variant that opens the lock in every pass of the unlock phase
Update_Disarmed_Reopen(now, m) ==
    LET elapsed == Sub32(now, m.sec.stateEntryTime)
    IN  IF Below32(elapsed, DISARM_WINDOW_MS)
        THEN [m EXCEPT !.servo = "open",
                       !.sec = [m.sec EXCEPT !.doorUnlockedMsg = TRUE],
                       !.cyc = [m.cyc EXCEPT !.opened = TRUE]]
        ELSE LET c == IF ~m.sec.waitingForAutoLock
                      THEN [m EXCEPT !.servo = "closed",
                                     !.sec = [m.sec EXCEPT !.stateEntryTime = now,
                                                           !.waitingForAutoLock = TRUE],
                                     !.cyc = [m.cyc EXCEPT !.closed = TRUE]]
                      ELSE m
             IN  IF c.sec.waitingForAutoLock
                    /\ IsTimeout(now, c.sec.stateEntryTime, AUTO_LOCK_DELAY_MS)
                 THEN [c EXCEPT !.sec = [c.sec EXCEPT !.currentState = "STATE_EXIT_DELAY",
                                                      !.stateEntryTime = now,
                                                      !.waitingForAutoLock = FALSE]]
                 ELSE c

Update_Disarmed(now, m) ==
    LET elapsed == Sub32(now, m.sec.stateEntryTime)
    IN  IF Below32(elapsed, DISARM_WINDOW_MS)
        THEN IF ~m.sec.doorUnlockedMsg
             THEN [m EXCEPT !.servo = "open",
                            !.sec = [m.sec EXCEPT !.doorUnlockedMsg = TRUE],
                            !.cyc = [m.cyc EXCEPT !.opened = TRUE]]
             ELSE m
        ELSE LET c == IF ~m.sec.waitingForAutoLock
                      THEN [m EXCEPT !.servo = "closed",
                                     !.sec = [m.sec EXCEPT !.stateEntryTime = now,
                                                           !.waitingForAutoLock = TRUE],
                                     !.cyc = [m.cyc EXCEPT !.closed = TRUE]]
                      ELSE m
             IN  IF c.sec.waitingForAutoLock
                    /\ IsTimeout(now, c.sec.stateEntryTime, AUTO_LOCK_DELAY_MS)
                 THEN [c EXCEPT !.sec = [c.sec EXCEPT !.currentState = "STATE_EXIT_DELAY",
                                                      !.stateEntryTime = now,
                                                      !.waitingForAutoLock = FALSE]]
                 ELSE c

\* Security_Update: one cycle of the state machine at tick now
Security_Update(now, m0, cache) ==
    LET st == m0.sec.currentState
        m == [m0 EXCEPT !.cyc = [NoCycle EXCEPT !.state = st, !.now = now]]
    IN  IF Below32(now, STARTUP_DELAY_MS) THEN m
        ELSE LET p == [m EXCEPT !.cyc = [m.cyc EXCEPT !.processed = TRUE]]
             IN  IF st = "STATE_ARMED" THEN Update_Armed(now, p, cache)
                 ELSE IF st = "STATE_ENTRY_DELAY" THEN Update_EntryDelay(now, p, cache)
                 ELSE IF st = "STATE_TRIGGERED" THEN Update_Triggered(now, p, cache)
                 ELSE IF st = "STATE_LOCKED" THEN Update_Locked(now, p)
                 ELSE IF st = "STATE_EXIT_DELAY" THEN Update_ExitDelay(now, p)
                 ELSE Update_Disarmed(now, p)

\* the statics of security_manager.c at reset, and after Security_Init at now
SecStatics ==
    [currentState |-> "STATE_TRIGGERED", stateEntryTime |-> 0, lastAlarmToggle |-> 0,
     alarmVolume |-> INITIAL_VOLUME, failedAttempts |-> 0,
     doorUnlockedMsg |-> FALSE, waitingForAutoLock |-> FALSE,
     toggleTriggered |-> FALSE, toggleLocked |-> FALSE, toggleExitDelay |-> FALSE]

Security_Init_KeepsKey(now, m) ==
    [m EXCEPT !.pir = FALSE,
              !.rf = RFID_GetLastScanResult(m.rf).rf,
              !.sec = [m.sec EXCEPT !.currentState = "STATE_ARMED",
                                    !.stateEntryTime = now],
              !.servo = "closed"]

Security_Init(now, m) ==
    [m EXCEPT !.pir = FALSE,
              !.rf = RFID_GetLastScanResult(m.rf).rf,
              !.kp = [m.kp EXCEPT !.pressed = NUL],
              !.sec = [m.sec EXCEPT !.currentState = "STATE_ARMED",
                                    !.stateEntryTime = now],
              !.servo = "closed"]

\* ------------------------------------------------------------------------
\* State
\* ------------------------------------------------------------------------
VARIABLES
    g_cachedConfig,   \* storage_mgr.c: the store's cache
    flash,            \* the sector at STORAGE_SECTOR_ADDR
    outConfig,        \* a caller's own instance handed to Storage_LoadConfig
    storeReady,       \* Storage_Init has run since the last reset
    faults,           \* flash operations that have failed so far
    op_name,          \* history: the last store operation,
    op_arg,           \*   its argument,
    op_ret,           \*   what it reported,
    op_saved,         \*   whether it called Storage_SaveConfig,
    op_msg,           \*   the message it printed last
    save_rec,         \* history: the record of the latest Storage_SaveConfig call
    save_ret,         \*   and what that call reported
    fill_calls,       \* history: AddRFID calls made with a new identifier
    g_systemTick,     \* timer_driver.c: the millisecond counter
    buzzerMOD,        \* output_mgr.c: TPM1->MOD, the buzzer's pitch
    buzzerCnV,        \*   TPM1 channel value, 0 when the buzzer is off
    g_buzzerTimeout,  \*   the mute countdown of Buzzer_Beep
    g_pressed_key,    \* keypad_driver.c: the latched key event, NUL if none
    kp_buffer,        \*   the PIN entry buffer,
    kp_index,         \*   its fill level
    last_key_time_kp, \*   and the tick of the last consumed key
    keyed,            \* history: the keys consumed in the current entry,
    keyed_from_empty, \*   whether it began on an empty buffer,
    key_ret,          \*   what Keypad_CheckPassword returned for its last key
    key_pin,          \*   and the door PIN at that call
    rfid,             \* rfid_driver.c: the statics of the card reader driver
    card,             \* the identifier of the card in the field, NoCard if none
    card_events,      \* history: new-card events raised for the card in the field,
    card_steady,      \*   whether every scan since it came was answered with it,
    card_read,        \*   whether a scan has read it since it came,
    card_left,        \*   the tick at which the previous card left the field,
    card_prev,        \*   that card's identifier
    card_back,        \*   and whether this is it again after more than 500 ms
    sec,              \* security_manager.c: the statics of the orchestrator
    g_pirDetected,    \* pir_driver.c: the motion-edge flag
    ledAlarm,         \* output_mgr.c: the alarm LED
    servo,            \* servo_driver.c: the lock, "open" or "closed"
    settled,          \* history: whether a cycle has been processed since boot,
    inv_run,          \*   Invalid results since the counter was last reset,
    inv_states,       \*   the states in which they were evaluated,
    flag_card,        \*   the card whose detection set the pending new-card flag,
    card_auth,        \*   the verdict on the card evaluated by the last cycle,
    flag_due,         \*   whether that card was non-zero and in the table then,
    lock_closed,      \*   whether the lock closed in this visit to Disarmed,
    lock_closed_at,   \*   the tick at which it did
    armed_clean,      \*   whether the inputs were empty when Armed was entered
    boot_from,        \*   the state in which the last restart found the system
    cycle_ran,        \*   and whether the last main loop pass got past the startup guard
    door,             \*   Servo_Open calls in this visit to Disarmed, and what began it
    stamp,            \* a timestamp taken with GetTick, and the time gone by since
    kscan,            \* keypad_driver.c: the statics of Keypad_Tick
    held,             \* the key held down on the matrix, NUL if none
    getkey,           \* Keypad_GetKeyNonBlocking under way in main: position and local k
    cpu,              \* PRIMASK, the active interrupt handler, the Save under way
    g_admin_logged_in,\* admin_mgr.c: the session flag
    irq_hist,         \* history: logins, contexts of Saves, handlers entered in a Save
    ev_hist,          \* history: the key events latched, returned and erased
    cmp               \* a strcmp or table lookup under way in main, and its history

storeVars == <<g_cachedConfig, flash, outConfig, storeReady, faults>>
histVars == <<op_name, op_arg, op_ret, op_saved, op_msg, save_rec, save_ret>>
clockVars == <<g_systemTick>>
buzzerVars == <<buzzerMOD, buzzerCnV, g_buzzerTimeout>>
kpVars == <<g_pressed_key, kp_buffer, kp_index, last_key_time_kp>>
kpHist == <<keyed, keyed_from_empty, key_ret, key_pin>>
rfidVars == <<rfid, card>>
rfidHist == <<card_events, card_steady, card_read, card_left, card_prev, card_back>>
secVars == <<sec, g_pirDetected, ledAlarm, servo>>
secHist == <<settled, inv_run, inv_states, flag_card, card_auth, flag_due, lock_closed, lock_closed_at, armed_clean, boot_from, cycle_ran, door>>
otherVars == <<rfidVars, rfidHist, secVars, secHist>>
ctxRest == <<kscan, held, getkey, cpu, g_admin_logged_in, irq_hist, ev_hist>>
ctxVars == <<ctxRest, cmp>>
vars == <<storeVars, histVars, fill_calls, stamp, ctxVars, clockVars, buzzerVars, kpVars, kpHist, otherVars>>

\* everything outside the store
nonStoreVars == <<stamp, ctxVars, clockVars, buzzerVars, kpVars, kpHist, otherVars>>

\* no timestamp under observation
NoStamp == [start |-> 0, hi |-> 0, lo |-> 0, steps |-> 0]

\* the statics of Keypad_Tick at reset; Keypad_Init leaves every row line
\* high, so no row is driven until the first tick has run
ScanStatics ==
    [current_row |-> 0, row_driven |-> FALSE, stable_key_candidate |-> NUL,
     g_raw_key |-> NUL, g_stable_count |-> 0, last_valid_key |-> NUL]

\* no Keypad_GetKeyNonBlocking call under way; stale tells that an event was
\* latched after the call read g_pressed_key into k
NoCall == [pc |-> "idle", k |-> NUL, stale |-> FALSE]

\* no Storage_SaveConfig under way: the operation that called it, its
\* argument, its result record and the flash outcome it will meet
NoJob == [name |-> "none", arg |-> 0, r |-> NoStoreOp(ZeroConfig, ZeroConfig, "none"),
          o |-> "ok"]

\* interrupts enabled (PRIMASK clear), no handler active, main before
\* Storage_Init, no Storage_SaveConfig under way
CpuReset == [primask |-> FALSE, handler |-> "none", main |-> "boot", save |-> "idle",
             job |-> NoJob]

\* login_ok: a LOGIN with the admin password of that moment has succeeded
\* since the last reset; save_ctx: the context of the last Save begun
NoIrqHist == [login_ok |-> FALSE, save_ctx |-> "none"]

\* run_char and run_len: the result of the last sweep and for how many sweeps
\* in a row it has been that character (counted up to RunCap); fired: the last
\* tick raised an event; fresh: an event was raised and no call has read it yet
\* run_events: the events raised in that run of sweeps (counted up to 2);
\* run_clean: the sweep before the run was empty; wrapped: g_stable_count has
\* gone from 255 to 0 within the run; again: an event was raised while the
\* one before it was still unread
NoEvHist == [run_char |-> NUL, run_len |-> 0, fired |-> FALSE, fresh |-> FALSE,
             twice |-> FALSE, erased |-> FALSE, ret |-> NUL,
             run_events |-> 0, run_clean |-> TRUE, wrapped |-> FALSE, again |-> FALSE]

\* no comparison under way in main
NoCmp ==
    [pc |-> "idle", input |-> <<>>, uid |-> 0, i |-> 0, ret |-> FALSE,
     pins |-> {}, tables |-> {}]

InitCtx ==
    /\ kscan = ScanStatics
    /\ held = NUL
    /\ getkey = NoCall
    /\ cpu = CpuReset
    /\ g_admin_logged_in = FALSE
    /\ irq_hist = NoIrqHist
    /\ ev_hist = NoEvHist
    /\ cmp = NoCmp

\* the statics of the timer, the outputs and the keypad at reset
InitDevices ==
    /\ g_systemTick = 0
    /\ buzzerMOD = 0
    /\ buzzerCnV = 0
    /\ g_buzzerTimeout = 0
    /\ g_pressed_key = NUL
    /\ kp_buffer = [i \in 1 .. PASS_LEN + 1 |-> NUL]
    /\ kp_index = 0
    /\ last_key_time_kp = 0
    /\ keyed = <<>>
    /\ keyed_from_empty = TRUE
    /\ key_ret = 0
    /\ key_pin = <<>>

\* the statics of the card reader driver at reset, no card in the field
RfidStatics ==
    [state |-> "RFID_IDLE", timer |-> 0, next_scan_time |-> 0, result |-> 0,
     last_uid |-> ZeroUid, last_uid_time |-> 0]

InitRfid ==
    /\ rfid = RfidStatics
    /\ card = NoCard
    /\ card_events = 0
    /\ card_steady = TRUE
    /\ card_read = FALSE
    /\ card_left = 0
    /\ card_prev = NoCard
    /\ card_back = FALSE

\* the statics of the orchestrator once Security_Init has run at tick now
BootedSec(now) ==
    [SecStatics EXCEPT !.currentState = "STATE_ARMED", !.stateEntryTime = now]

\* no visit to Disarmed under way
NoDoor == [opens |-> 0, valid |-> FALSE]

InitSecHist ==
    /\ settled = FALSE
    /\ inv_run = 0
    /\ inv_states = {}
    /\ flag_card = NoCard
    /\ card_auth = AUTH_NONE
    /\ flag_due = FALSE
    /\ lock_closed = FALSE
    /\ lock_closed_at = 0
    /\ armed_clean = TRUE
    /\ boot_from = "none"
    /\ door = NoDoor
    /\ cycle_ran = FALSE

\* before main has run
InitSecReset ==
    /\ sec = SecStatics
    /\ g_pirDetected = FALSE
    /\ ledAlarm = FALSE
    /\ servo = "closed"
    /\ InitSecHist

\* after Security_Init at tick 0
InitSec ==
    /\ sec = BootedSec(0)
    /\ g_pirDetected = FALSE
    /\ ledAlarm = FALSE
    /\ servo = "closed"
    /\ InitSecHist

\* ------------------------------------------------------------------------
\* Inputs of the store operations
\* ------------------------------------------------------------------------
PinInputs == {<<"4", "3", "2", "1">>, <<"7", "7">>, <<"1", "2", "3", "4", "5">>}
PassInputs == {<<"a", "b">>, <<"p", "a", "s", "s", "w", "o", "r", "d", "1", "0">>}
UidInputs == {0, 17, 42}

\* a sector written by an earlier run of the firmware
UsedSector ==
    MkConfig(StrCpy(ZeroConfig.door_pin, <<"4", "3", "2", "1">>),
             StrCpy(ZeroConfig.admin_password, DefaultPass),
             [EmptyTable EXCEPT ![0] = 17], STORAGE_MAGIC)

InitStore ==
    /\ g_cachedConfig = ZeroConfig
    /\ flash \in {ErasedSector, UsedSector}
    /\ outConfig = ZeroConfig
    /\ storeReady = FALSE
    /\ faults = 0
    /\ op_name = "none"
    /\ op_arg = 0
    /\ op_ret = FALSE
    /\ op_saved = FALSE
    /\ op_msg = "none"
    /\ save_rec = ZeroConfig
    /\ save_ret = FALSE
    /\ fill_calls = 0
    /\ stamp = NoStamp
    /\ InitCtx
    /\ InitDevices
    /\ InitRfid
    /\ InitSecReset

\* the flash outcomes the fault budget still allows
Outcomes == IF faults < MaxFaults THEN FlashOutcomes ELSE {"ok"}

\* the effect of a store operation whose result record is r, reached with the
\* flash outcome o; a caller's own instance does not outlive the next operation
StoreEffect(name, arg, r, o) ==
    /\ g_cachedConfig' = r.cache
    /\ faults' = IF r.saved /\ o # "ok" THEN faults + 1 ELSE faults
    /\ outConfig' = IF name = "LoadFresh" THEN r.out ELSE ZeroConfig
    /\ flash' = r.flash
    /\ op_name' = name
    /\ op_arg' = arg
    /\ op_ret' = r.ret
    /\ op_saved' = r.saved
    /\ op_msg' = r.msg
    /\ save_rec' = IF r.saved THEN r.cache ELSE save_rec
    /\ save_ret' = IF r.saved THEN r.ret ELSE save_ret

\* Storage_Init: load into the cache itself
Storage_Init ==
    /\ ~storeReady
    /\ \E outcome \in Outcomes :
         LET r == Storage_LoadConfig(g_cachedConfig, g_cachedConfig, flash, outcome)
         IN  StoreEffect("Storage_Init", 0, [r EXCEPT !.cache = r.out], outcome)
    /\ storeReady' = TRUE
    /\ UNCHANGED fill_calls
    /\ UNCHANGED nonStoreVars

\* Storage_LoadConfig into a fresh instance of the caller
LoadFresh ==
    /\ storeReady
    /\ \E fresh \in {ZeroConfig, JunkConfig}, outcome \in Outcomes :
         LET r == Storage_LoadConfig(fresh, g_cachedConfig, flash, outcome)
         IN  StoreEffect("LoadFresh", 0, r, outcome)
    /\ UNCHANGED storeReady
    /\ UNCHANGED fill_calls
    /\ UNCHANGED nonStoreVars

UpdatePIN ==
    /\ storeReady
    /\ \E p \in PinInputs, outcome \in Outcomes :
         StoreEffect("UpdatePIN", p, Storage_UpdatePIN(p, g_cachedConfig, flash, outcome), outcome)
    /\ UNCHANGED storeReady
    /\ UNCHANGED fill_calls
    /\ UNCHANGED nonStoreVars

UpdateAdminPass ==
    /\ storeReady
    /\ \E p \in PassInputs, outcome \in Outcomes :
         StoreEffect("UpdateAdminPass", p,
                     Storage_UpdateAdminPass(p, g_cachedConfig, flash, outcome), outcome)
    /\ UNCHANGED storeReady
    /\ UNCHANGED fill_calls
    /\ UNCHANGED nonStoreVars

AddRFID ==
    /\ storeReady
    /\ \E u \in UidInputs, outcome \in Outcomes :
         StoreEffect("AddRFID", u, Storage_AddRFID(u, g_cachedConfig, flash, outcome), outcome)
    /\ UNCHANGED storeReady
    /\ UNCHANGED fill_calls
    /\ UNCHANGED nonStoreVars

RemoveRFID ==
    /\ storeReady
    /\ \E u \in UidInputs, outcome \in Outcomes :
         StoreEffect("RemoveRFID", u, Storage_RemoveRFID(u, g_cachedConfig, flash, outcome), outcome)
    /\ UNCHANGED storeReady
    /\ UNCHANGED fill_calls
    /\ UNCHANGED nonStoreVars

FactoryReset ==
    /\ storeReady
    /\ \E stackCfg \in {ZeroConfig, JunkConfig}, outcome \in Outcomes :
         StoreEffect("FactoryReset", 0, Storage_FactoryReset(stackCfg, flash, outcome), outcome)
    /\ UNCHANGED storeReady
    /\ UNCHANGED fill_calls
    /\ UNCHANGED nonStoreVars

\* a reset (power-on or watchdog): statics are zeroed again, the sector stays
SystemReset ==
    /\ storeReady
    /\ g_cachedConfig' = ZeroConfig
    /\ storeReady' = FALSE
    /\ op_name' = "reset"
    /\ op_arg' = 0
    /\ op_ret' = FALSE
    /\ op_saved' = FALSE
    /\ op_msg' = "none"
    /\ outConfig' = ZeroConfig
    /\ UNCHANGED <<flash, faults, save_rec, save_ret>>
    /\ UNCHANGED fill_calls
    /\ UNCHANGED nonStoreVars

NextStore ==
    \/ Storage_Init
    \/ LoadFresh
    \/ UpdatePIN
    \/ UpdateAdminPass
    \/ AddRFID
    \/ RemoveRFID
    \/ FactoryReset
    \/ SystemReset

SpecStore == InitStore /\ [][NextStore]_vars

\* ------------------------------------------------------------------------
\* Filling the table: a fresh chip after its first Storage_Init, then
\* AddRFID calls with identifiers first, first + 1, ... and repeated ones,
\* every Save succeeding
\* ------------------------------------------------------------------------
\* calls made beyond the capacity of the table
FillExtra == 2

FillFirstIds == {1, 4660, -60}

InitFill ==
    /\ g_cachedConfig = DefaultsOver(ZeroConfig)
    /\ flash = DefaultsOver(ZeroConfig)
    /\ outConfig = ZeroConfig
    /\ storeReady = TRUE
    /\ faults = 0
    /\ op_name = "Storage_Init"
    /\ op_arg = 0
    /\ op_ret = TRUE
    /\ op_saved = TRUE
    /\ op_msg = "Save Success"
    /\ save_rec = DefaultsOver(ZeroConfig)
    /\ save_ret = TRUE
    /\ fill_calls = 0
    /\ stamp = NoStamp
    /\ InitCtx
    /\ InitDevices
    /\ InitRfid
    /\ InitSec

FillAddNew ==
    /\ fill_calls < MAX_STORED_IDS + FillExtra
    /\ \E u \in (IF fill_calls = 0 THEN FillFirstIds
                  ELSE {g_cachedConfig.authorized_uids[0] + fill_calls}) :
         StoreEffect("AddRFID", u, Storage_AddRFID(u, g_cachedConfig, flash, "ok"), "ok")
    /\ fill_calls' = fill_calls + 1
    /\ UNCHANGED storeReady
    /\ UNCHANGED nonStoreVars

FillAddAgain ==
    /\ fill_calls > 0
    /\ \E k \in {0, fill_calls - 1} :
         LET u == g_cachedConfig.authorized_uids[0] + k
         IN  StoreEffect("AddRFID", u, Storage_AddRFID(u, g_cachedConfig, flash, "ok"), "ok")
    /\ UNCHANGED <<storeReady, fill_calls>>
    /\ UNCHANGED nonStoreVars

NextFill ==
    \/ FillAddNew
    \/ FillAddAgain

SpecFill == InitFill /\ [][NextFill]_vars

\* ------------------------------------------------------------------------
\* Outputs and clock (output_mgr.c, timer_driver.c)
\* ------------------------------------------------------------------------
\* d runs of PIT_IRQHandler in a row: the counter advances and Outputs_Tick
\* counts the mute countdown down, switching the buzzer off when it ends
PIT_IRQHandler(d, maxTick) ==
    /\ g_systemTick + d <= maxTick
    /\ g_systemTick' = Add32(g_systemTick, d)
    /\ g_buzzerTimeout' = IF g_buzzerTimeout > d THEN g_buzzerTimeout - d ELSE 0
    /\ buzzerCnV' = IF g_buzzerTimeout > 0 /\ g_buzzerTimeout <= d THEN 0 ELSE buzzerCnV
    /\ UNCHANGED buzzerMOD

\* the keypad state as one record, and the history of the current entry
KpState ==
    [pressed |-> g_pressed_key, buffer |-> kp_buffer, index |-> kp_index,
     last |-> last_key_time_kp]

\* the keypad variables and their history after a Keypad_CheckPassword call
\* with result r
KeypadEffect(r) ==
    LET base == IF r.expired THEN <<>> ELSE keyed
        fresh == Len(base) = 0 \/ Len(base) >= PASS_LEN
        idx0 == IF r.expired THEN 0 ELSE kp_index
    IN  /\ g_pressed_key' = r.pressed
        /\ kp_buffer' = r.buffer
        /\ kp_index' = r.index
        /\ last_key_time_kp' = r.last
        /\ keyed' = IF r.key = NUL THEN base
                     ELSE IF fresh THEN <<r.key>> ELSE Append(base, r.key)
        /\ keyed_from_empty' = IF r.key # NUL /\ fresh THEN (idx0 = 0)
                                ELSE IF r.expired THEN TRUE ELSE keyed_from_empty
        /\ key_ret' = IF r.key = NUL THEN key_ret ELSE r.ret
        /\ key_pin' = IF r.key = NUL THEN key_pin ELSE CStr(g_cachedConfig.door_pin)

\* Buzzer_Beep(duration) when beep holds, else the buzzer is left alone
BeepEffect(beep, duration) ==
    IF beep
    THEN /\ buzzerMOD' = Buzzer_On(1000, 50).MOD
         /\ buzzerCnV' = Buzzer_On(1000, 50).CnV
         /\ g_buzzerTimeout' = duration
    ELSE UNCHANGED buzzerVars

\* ------------------------------------------------------------------------
\* PIN entry: the admin sets door PINs, keys are latched by the scan
\* interrupt and the main context polls Keypad_CheckPassword
\* ------------------------------------------------------------------------
\* the last tick of a PIN entry run, and the time between two polls
MaxTickPin == 10000
PinTickStep == 5000

PinKeys == {"1", "#"}
NewPins ==
    {<<"1", "1", "1", "1">>, <<"1", "#", "1", "1">>, <<"1", "1">>, <<"1", "e", "1", "1">>}

InitPin ==
    /\ g_cachedConfig = DefaultsOver(ZeroConfig)
    /\ flash = DefaultsOver(ZeroConfig)
    /\ outConfig = ZeroConfig
    /\ storeReady = TRUE
    /\ faults = 0
    /\ op_name = "Storage_Init"
    /\ op_arg = 0
    /\ op_ret = TRUE
    /\ op_saved = TRUE
    /\ op_msg = "Save Success"
    /\ save_rec = DefaultsOver(ZeroConfig)
    /\ save_ret = TRUE
    /\ fill_calls = 0
    /\ stamp = NoStamp
    /\ InitCtx
    /\ InitDevices
    /\ InitRfid
    /\ InitSec

\* NEWPASS <pin> on the admin link
PinSetPassword ==
    /\ \E p \in NewPins :
         StoreEffect("SetPassword", p,
                     Security_SetPassword(p, g_cachedConfig, flash, "ok"), "ok")
    /\ UNCHANGED <<storeReady, fill_calls, nonStoreVars>>

\* the scan interrupt latches a debounced key
PinKeyLatch ==
    /\ \E k \in PinKeys : g_pressed_key' = k
    /\ UNCHANGED <<storeVars, histVars, fill_calls, stamp, ctxVars, clockVars, buzzerVars>>
    /\ UNCHANGED <<kp_buffer, kp_index, last_key_time_kp, kpHist, otherVars>>

\* one Keypad_CheckPassword call
PinPoll ==
    /\ LET r == Keypad_CheckPassword(g_systemTick, KpState, g_cachedConfig)
       IN  /\ KeypadEffect(r)
           /\ BeepEffect(r.key # NUL, 30)
    /\ UNCHANGED <<storeVars, histVars, fill_calls, stamp, ctxVars, clockVars, otherVars>>

PinTick ==
    /\ PIT_IRQHandler(PinTickStep, MaxTickPin)
    /\ UNCHANGED <<storeVars, histVars, fill_calls, stamp, ctxVars, kpVars, kpHist, otherVars>>

NextPin ==
    \/ PinSetPassword
    \/ PinKeyLatch
    \/ PinPoll
    \/ PinTick

SpecPin == InitPin /\ [][NextPin]_vars

\* PIN entry around the inactivity limit: the instants at which main polls
\* lie just before, at and just after 5000 ms and 10000 ms
EntryTimes == {1, 4999, 5000, 5001, 9999, 10000, 10001}
MaxTickEntry == 10001

\* the PIT interrupts up to the next of these instants
EntryTick ==
    /\ \E t \in EntryTimes :
         /\ t > g_systemTick
         /\ \A u \in EntryTimes : u > g_systemTick => t <= u
         /\ PIT_IRQHandler(t - g_systemTick, MaxTickEntry)
    /\ UNCHANGED <<storeVars, histVars, fill_calls, stamp, ctxVars, kpVars, kpHist, otherVars>>

NextEntry ==
    \/ PinSetPassword
    \/ PinKeyLatch
    \/ PinPoll
    \/ EntryTick

SpecEntry == InitPin /\ [][NextEntry]_vars

\* ------------------------------------------------------------------------
\* Comparisons in main against the cache, the UART2 handler updating it:
\* strcmp in Security_CheckPassword reads door_pin byte by byte and the
\* lookup loop reads authorized_uids word by word, and the handler, which has
\* the higher priority, can run Admin_ProcessCommand between any two reads
\* ------------------------------------------------------------------------
CmpInputs ==
    {<<"1", "2", "3", "4">>, <<"5", "6", "7", "8">>, <<"1", "2", "7", "8">>}
CmpNewPins == {<<"5", "6", "7", "8">>, <<"1", "2", "3", "4">>}
CmpUids == {17, 42}
\* the updates the handler makes while one comparison is under way, at most
MaxUpdates == 1

UpdatesSeen == Cardinality(cmp.pins) + Cardinality(cmp.tables) - 2

CmpUnchanged ==
    UNCHANGED <<storeReady, fill_calls, stamp, ctxRest, clockVars, buzzerVars, kpVars,
                kpHist, otherVars>>

\* Security_CheckPassword is called with the submitted PIN
CmpCall ==
    /\ cmp.pc = "idle"
    /\ \E p \in CmpInputs :
         cmp' = [NoCmp EXCEPT !.pc = "strcmp", !.input = p \o <<NUL>>, !.i = 1,
                              !.pins = {CStr(g_cachedConfig.door_pin)},
                              !.tables = {g_cachedConfig.authorized_uids}]
    /\ UNCHANGED <<storeVars, histVars>>
    /\ CmpUnchanged

\* strcmp compares one byte of the two strings
CmpByte ==
    /\ cmp.pc = "strcmp"
    /\ LET a == cmp.input[cmp.i]
           b == g_cachedConfig.door_pin[cmp.i]
       IN  cmp' = IF a # b THEN [cmp EXCEPT !.pc = "done", !.ret = FALSE]
                  ELSE IF a = NUL THEN [cmp EXCEPT !.pc = "done", !.ret = TRUE]
                  ELSE [cmp EXCEPT !.i = @ + 1]
    /\ UNCHANGED <<storeVars, histVars>>
    /\ CmpUnchanged

\* the lookup loop of Check_Auth begins for the identifier read from the card
LookupCall ==
    /\ cmp.pc = "idle"
    /\ \E u \in CmpUids :
         cmp' = [NoCmp EXCEPT !.pc = "lookup", !.uid = u, !.i = 0,
                              !.pins = {CStr(g_cachedConfig.door_pin)},
                              !.tables = {g_cachedConfig.authorized_uids}]
    /\ UNCHANGED <<storeVars, histVars>>
    /\ CmpUnchanged

\* one pass of the lookup loop
LookupSlot ==
    /\ cmp.pc = "lookup"
    /\ LET w == g_cachedConfig.authorized_uids[cmp.i]
       IN  cmp' = IF w # 0 /\ w = cmp.uid THEN [cmp EXCEPT !.pc = "done", !.ret = TRUE]
                  ELSE IF cmp.i = MAX_STORED_IDS - 1
                  THEN [cmp EXCEPT !.pc = "done", !.ret = FALSE]
                  ELSE [cmp EXCEPT !.i = @ + 1]
    /\ UNCHANGED <<storeVars, histVars>>
    /\ CmpUnchanged

\* the comparison returns to its caller
CmpReturn ==
    /\ cmp.pc = "done"
    /\ cmp' = NoCmp
    /\ UNCHANGED <<storeVars, histVars>>
    /\ CmpUnchanged

\* what a comparison under way has seen of the cache once the handler returns
CmpSees(cache) ==
    IF cmp.pc \in {"strcmp", "lookup"}
    THEN [cmp EXCEPT !.pins = @ \cup {CStr(cache.door_pin)},
                     !.tables = @ \cup {cache.authorized_uids}]
    ELSE cmp

\* UART2_IRQHandler runs NEWPASS <pin>
CmpSetPassword ==
    /\ cmp.pc = "idle" \/ UpdatesSeen < MaxUpdates
    /\ \E p \in CmpNewPins :
         LET r == Security_SetPassword(p, g_cachedConfig, flash, "ok")
         IN  /\ StoreEffect("SetPassword", p, r, "ok")
             /\ cmp' = CmpSees(r.cache)
    /\ CmpUnchanged

\* UART2_IRQHandler runs ADDID <uid>
CmpAddRFID ==
    /\ cmp.pc = "idle" \/ UpdatesSeen < MaxUpdates
    /\ \E u \in CmpUids :
         LET r == Storage_AddRFID(u, g_cachedConfig, flash, "ok")
         IN  /\ StoreEffect("AddRFID", u, r, "ok")
             /\ cmp' = CmpSees(r.cache)
    /\ CmpUnchanged

\* UART2_IRQHandler runs DELID <uid>
CmpRemoveRFID ==
    /\ cmp.pc = "idle" \/ UpdatesSeen < MaxUpdates
    /\ \E u \in CmpUids :
         LET r == Storage_RemoveRFID(u, g_cachedConfig, flash, "ok")
         IN  /\ StoreEffect("RemoveRFID", u, r, "ok")
             /\ cmp' = CmpSees(r.cache)
    /\ CmpUnchanged

NextCmp ==
    \/ CmpCall
    \/ CmpByte
    \/ LookupCall
    \/ LookupSlot
    \/ CmpReturn
    \/ CmpSetPassword
    \/ CmpAddRFID
    \/ CmpRemoveRFID

SpecCmp == InitPin /\ [][NextCmp]_vars

\* ------------------------------------------------------------------------
\* Keypad scan: the 1 ms interrupt runs Keypad_Tick on the matrix while the
\* main context runs Keypad_GetKeyNonBlocking, one memory access at a time
\* ------------------------------------------------------------------------
MaxTickScan == 184
RunCap == 23
ScanKeys == {"1", "D"}

\* the character the column inputs show while the given row is driven low and
\* key h is held down: key_map[row][col] of the column h pulls low
KeyAt(row, h) ==
    IF \E c \in 1..4 : KeyMap[row + 1][c] = h THEN h ELSE NUL

\* Keypad_Tick without the edge test: every boundary with a stable key latches
Keypad_Tick_Repeat(ks, pressed, h) ==
    LET det == IF ks.row_driven THEN KeyAt(ks.current_row, h) ELSE NUL
        raw == IF det # NUL THEN det ELSE ks.g_raw_key
        same == raw # NUL /\ raw = ks.stable_key_candidate
        count == IF same THEN (ks.g_stable_count + 1) % 256 ELSE 0
        fire == count > 20
    IN  IF ks.current_row # 3
        THEN [ks |-> [ks EXCEPT !.g_raw_key = raw, !.current_row = ks.current_row + 1,
                                !.row_driven = TRUE],
              pressed |-> pressed, fired |-> FALSE, boundary |-> FALSE, result |-> NUL]
        ELSE [ks |-> [current_row |-> 0, row_driven |-> TRUE,
                      stable_key_candidate |-> raw, g_raw_key |-> NUL,
                      g_stable_count |-> count,
                      last_valid_key |-> IF fire THEN raw
                                         ELSE IF raw = NUL THEN NUL
                                         ELSE ks.last_valid_key],
              pressed |-> IF fire THEN raw ELSE pressed,
              fired |-> fire, boundary |-> TRUE, result |-> raw]

\* Keypad_Tick with the last-latched memory cleared whenever the counter is
\* at most 20
Keypad_Tick_WrapClears(ks, pressed, h) ==
    LET det == IF ks.row_driven THEN KeyAt(ks.current_row, h) ELSE NUL
        raw == IF det # NUL THEN det ELSE ks.g_raw_key
        same == raw # NUL /\ raw = ks.stable_key_candidate
        count == IF same THEN (ks.g_stable_count + 1) % 256 ELSE 0
        fire == count > 20 /\ raw # ks.last_valid_key
    IN  IF ks.current_row # 3
        THEN [ks |-> [ks EXCEPT !.g_raw_key = raw, !.current_row = ks.current_row + 1,
                                !.row_driven = TRUE],
              pressed |-> pressed, fired |-> FALSE, boundary |-> FALSE, result |-> NUL]
        ELSE [ks |-> [current_row |-> 0, row_driven |-> TRUE,
                      stable_key_candidate |-> raw, g_raw_key |-> NUL,
                      g_stable_count |-> count,
                      last_valid_key |-> IF fire THEN raw
                                         ELSE IF count <= 20 THEN NUL
                                         ELSE ks.last_valid_key],
              pressed |-> IF fire THEN raw ELSE pressed,
              fired |-> fire, boundary |-> TRUE, result |-> raw]

\* Keypad_Tick on the statics ks with key h held down (NUL: none) and
\* g_pressed_key = pressed.  The result holds the statics and g_pressed_key
\* afterwards, whether an event was raised, whether this tick closed a sweep
\* and the sweep's result (g_raw_key before it is reset).
Keypad_Tick(ks, pressed, h) ==
    LET det == IF ks.row_driven THEN KeyAt(ks.current_row, h) ELSE NUL
        raw == IF det # NUL THEN det ELSE ks.g_raw_key
        same == raw # NUL /\ raw = ks.stable_key_candidate
        count == IF same THEN (ks.g_stable_count + 1) % 256 ELSE 0
        fire == count > 20 /\ raw # ks.last_valid_key
    IN  IF ks.current_row # 3
        THEN [ks |-> [ks EXCEPT !.g_raw_key = raw, !.current_row = ks.current_row + 1,
                                !.row_driven = TRUE],
              pressed |-> pressed, fired |-> FALSE, boundary |-> FALSE, result |-> NUL]
        ELSE [ks |-> [current_row |-> 0, row_driven |-> TRUE,
                      stable_key_candidate |-> raw, g_raw_key |-> NUL,
                      g_stable_count |-> count,
                      last_valid_key |-> IF fire THEN raw
                                         ELSE IF count <= 20 /\ raw = NUL THEN NUL
                                         ELSE ks.last_valid_key],
              pressed |-> IF fire THEN raw ELSE pressed,
              fired |-> fire, boundary |-> TRUE, result |-> raw]

\* the sweeps in a row, counted up to RunCap, that have had the result of the
\* sweep closed by a tick with result r
RunAfter(r) ==
    IF ~r.boundary THEN ev_hist.run_len
    ELSE IF r.result = NUL THEN 0
    ELSE IF r.result # ev_hist.run_char THEN 1
    ELSE IF ev_hist.run_len < RunCap THEN ev_hist.run_len + 1 ELSE RunCap

\* the events, counted up to 2, raised in the run of sweeps that the tick
\* with result r continues or begins
RunEventsAfter(r) ==
    IF ~r.boundary THEN ev_hist.run_events
    ELSE IF r.result # ev_hist.run_char THEN (IF r.fired THEN 1 ELSE 0)
    ELSE IF r.fired /\ ev_hist.run_events < 2 THEN ev_hist.run_events + 1
    ELSE ev_hist.run_events

\* the keypad statics, the latched event, a call that has read the event
\* before, and the history after a Keypad_Tick with result r
ScanEffect(r) ==
    /\ kscan' = r.ks
    /\ g_pressed_key' = r.pressed
    /\ getkey' = IF r.fired /\ getkey.pc = "read"
                 THEN [getkey EXCEPT !.stale = TRUE] ELSE getkey
    /\ ev_hist' = [ev_hist EXCEPT !.fired = r.fired,
                                  !.fresh = @ \/ r.fired,
                                  !.again = @ \/ (r.fired /\ ev_hist.fresh),
                                  !.run_char = IF r.boundary THEN r.result ELSE @,
                                  !.run_len = RunAfter(r),
                                  !.run_events = RunEventsAfter(r),
                                  !.run_clean =
                                     IF r.boundary /\ r.result # ev_hist.run_char
                                     THEN ev_hist.run_char = NUL ELSE @,
                                  !.wrapped =
                                     IF ~r.boundary THEN @
                                     ELSE IF r.result # ev_hist.run_char THEN FALSE
                                     ELSE @ \/ (kscan.g_stable_count = 255
                                                  /\ r.ks.g_stable_count = 0)]

\* one PIT interrupt: the tick count, Keypad_Tick and Outputs_Tick.  It is
\* taken when PRIMASK is clear and no handler is active (PIT has priority 3,
\* the lowest; UART2 keeps the reset priority 0)
PitTick(maxTick) ==
    /\ ~cpu.primask
    /\ cpu.handler = "none"
    /\ PIT_IRQHandler(1, maxTick)
    /\ ScanEffect(Keypad_Tick(kscan, g_pressed_key, held))
    /\ UNCHANGED <<storeVars, histVars, fill_calls, stamp, cmp, held, cpu, g_admin_logged_in, irq_hist>>
    /\ UNCHANGED <<kp_buffer, kp_index, last_key_time_kp, kpHist, otherVars>>

ScanTick == PitTick(MaxTickScan)

\* a key goes down, changes or comes up
KeyChange ==
    /\ \E h \in (ScanKeys \cup {NUL}) \ {held} : held' = h
    /\ UNCHANGED <<storeVars, histVars, fill_calls, stamp, cmp, kscan, getkey, cpu, g_admin_logged_in, irq_hist, ev_hist>>
    /\ UNCHANGED <<clockVars, buzzerVars, kpVars, kpHist, otherVars>>

\* Keypad_GetKeyNonBlocking, the test of g_pressed_key: with no event the
\* call returns 0
GetKeyTest ==
    /\ getkey.pc = "idle"
    /\ getkey' = IF g_pressed_key # NUL THEN [getkey EXCEPT !.pc = "tested"] ELSE getkey
    /\ ev_hist' = IF g_pressed_key # NUL THEN ev_hist ELSE [ev_hist EXCEPT !.ret = NUL]
    /\ UNCHANGED <<storeVars, histVars, fill_calls, stamp, cmp, kscan, held, cpu, g_admin_logged_in, irq_hist>>
    /\ UNCHANGED <<clockVars, buzzerVars, kpVars, kpHist, otherVars>>

\* k = g_pressed_key
GetKeyRead ==
    /\ getkey.pc = "tested"
    /\ getkey' = [pc |-> "read", k |-> g_pressed_key, stale |-> FALSE]
    /\ ev_hist' = [ev_hist EXCEPT !.twice = @ \/ ~ev_hist.fresh, !.fresh = FALSE]
    /\ UNCHANGED <<storeVars, histVars, fill_calls, stamp, cmp, kscan, held, cpu, g_admin_logged_in, irq_hist>>
    /\ UNCHANGED <<clockVars, buzzerVars, kpVars, kpHist, otherVars>>

\* g_pressed_key = 0; return k
GetKeyClear ==
    /\ getkey.pc = "read"
    /\ g_pressed_key' = NUL
    /\ getkey' = NoCall
    /\ ev_hist' = [ev_hist EXCEPT !.erased = @ \/ getkey.stale, !.fresh = FALSE,
                                  !.ret = getkey.k]
    /\ UNCHANGED <<storeVars, histVars, fill_calls, stamp, cmp, kscan, held, cpu, g_admin_logged_in, irq_hist>>
    /\ UNCHANGED <<clockVars, buzzerVars, kp_buffer, kp_index, last_key_time_kp, kpHist, otherVars>>

NextScan ==
    \/ ScanTick
    \/ KeyChange
    \/ GetKeyTest
    \/ GetKeyRead
    \/ GetKeyClear

SpecScan == InitPin /\ [][NextScan]_vars

\* ------------------------------------------------------------------------
\* A key held for a long time: the scan interrupt alone, long enough for the
\* 8-bit g_stable_count to wrap
\* ------------------------------------------------------------------------
MaxTickHold == 1240

HoldKey == "1"

HoldTick == PitTick(MaxTickHold)

\* the key goes down or comes up.  It sits in row 0, which is read by the
\* first tick of a sweep only, so a change at any other tick shows as a
\* change just before that tick
HoldKeyChange ==
    /\ kscan.current_row = 0
    /\ held' = IF held = NUL THEN HoldKey ELSE NUL
    /\ UNCHANGED <<storeVars, histVars, fill_calls, stamp, cmp, kscan, getkey, cpu, g_admin_logged_in, irq_hist, ev_hist>>
    /\ UNCHANGED <<clockVars, buzzerVars, kpVars, kpHist, otherVars>>

NextHold ==
    \/ HoldTick
    \/ HoldKeyChange

SpecHold == InitPin /\ [][NextHold]_vars

\* ------------------------------------------------------------------------
\* Admin link and interrupts: UART2_IRQHandler runs Admin_ProcessCommand on a
\* received line; Storage_SaveConfig runs step by step, in the handler or in
\* main (Storage_Init on a chip without a valid record)
\* ------------------------------------------------------------------------
MaxTickAdmin == 3

AdminCmds ==
    {[verb |-> "LOGIN", token |-> DefaultPass],
     [verb |-> "LOGIN", token |-> <<"a", "b">>],
     [verb |-> "LOGIN", token |-> <<>>],
     [verb |-> "NEWPASS", token |-> <<"4", "3", "2", "1">>],
     [verb |-> "ADDID", token |-> <<"1", "1">>],
     [verb |-> "ADDID", token |-> <<"z">>],
     [verb |-> "DELID", token |-> <<"1", "1">>],
     [verb |-> "DELID", token |-> <<"0">>],
     [verb |-> "ADMINPASS", token |-> <<"a", "b">>],
     [verb |-> "STATUS", token |-> <<>>]}

InitAdmin == InitStore

\* __disable_irq() without effect
SaveEnter_Unmasked(c, ctx, job) ==
    [c EXCEPT !.handler = ctx, !.save = "erase", !.job = job]

\* Storage_SaveConfig entered in context ctx ("none": main) after the memcpy
\* into the cache: __disable_irq(), FLASH_Erase is next
SaveEnter(c, ctx, job) ==
    [c EXCEPT !.primask = TRUE, !.handler = ctx, !.save = "erase", !.job = job]

\* Storage_SaveConfig returns: __enable_irq() on either path; Admin_ProcessCommand
\* and the handler return with it, main goes on behind Storage_Init
SaveLeave(c) ==
    [primask |-> FALSE, handler |-> "none",
     main |-> IF c.job.name = "Storage_Init" THEN "run" ELSE c.main,
     save |-> "idle", job |-> NoJob]

\* main, Storage_Init up to the Save of Storage_LoadConfig: the record of the
\* sector, or the defaults written into the cache
AdminStorageInit ==
    /\ cpu.main = "boot"
    /\ cpu.handler = "none"
    /\ IF flash.magic_header = STORAGE_MAGIC
       THEN /\ StoreEffect("Storage_Init", 0,
                           [cache |-> flash, flash |-> flash, ret |-> TRUE,
                            saved |-> FALSE, msg |-> "none"], "ok")
            /\ storeReady' = TRUE
            /\ cpu' = [cpu EXCEPT !.main = "run"]
       ELSE /\ g_cachedConfig' = DefaultsOver(g_cachedConfig)
            /\ cpu' = [cpu EXCEPT !.main = "loaded"]
            /\ UNCHANGED <<flash, outConfig, storeReady, faults, histVars>>
    /\ UNCHANGED <<fill_calls, stamp, cmp, kscan, held, getkey, g_admin_logged_in, irq_hist, ev_hist>>
    /\ UNCHANGED <<clockVars, buzzerVars, kpVars, kpHist, otherVars>>

\* main, Storage_SaveConfig(&g_cachedConfig) of Storage_LoadConfig
AdminInitSave ==
    /\ cpu.main = "loaded"
    /\ cpu.handler = "none"
    /\ cpu.save = "idle"
    /\ \E outcome \in Outcomes :
         cpu' = SaveEnter(cpu, "none",
                          [name |-> "Storage_Init", arg |-> 0,
                           r |-> Storage_SaveConfig(g_cachedConfig, flash, outcome),
                           o |-> outcome])
    /\ irq_hist' = [irq_hist EXCEPT !.save_ctx = "main"]
    /\ UNCHANGED <<storeVars, histVars, fill_calls, stamp, cmp, kscan, held, getkey, g_admin_logged_in, ev_hist>>
    /\ UNCHANGED <<clockVars, buzzerVars, kpVars, kpHist, otherVars>>

\* the handler after Admin_ProcessCommand with result a for the command cmd:
\* a command that saves has updated the cache and entered Storage_SaveConfig,
\* any other command is over
CommandEffect(cmd, a, outcome) ==
    /\ g_admin_logged_in' = a.logged
    /\ IF a.r.saved
       THEN /\ g_cachedConfig' = a.r.cache
            /\ cpu' = SaveEnter(cpu, "UART2",
                                [name |-> cmd.verb, arg |-> a.arg, r |-> a.r, o |-> outcome])
            /\ UNCHANGED <<flash, outConfig, faults, histVars>>
       ELSE /\ StoreEffect(cmd.verb, a.arg, a.r, "ok")
            /\ UNCHANGED cpu
    /\ irq_hist' =
         [login_ok |-> \/ irq_hist.login_ok
                       \/ /\ cmd.verb = "LOGIN"
                          /\ cmd.token # <<>>
                          /\ cmd.token = CStr(g_cachedConfig.admin_password),
          save_ctx |-> IF a.r.saved THEN "UART2" ELSE irq_hist.save_ctx]

\* UART2_IRQHandler on the byte that ends a line: Admin_ProcessCommand
AdminCommand ==
    /\ ~cpu.primask
    /\ cpu.handler = "none"
    /\ \E cmd \in AdminCmds, outcome \in Outcomes :
         CommandEffect(cmd,
                       Admin_ProcessCommand(cmd, g_admin_logged_in, g_cachedConfig, flash,
                                            outcome),
                       outcome)
    /\ UNCHANGED <<storeReady, fill_calls, stamp, cmp, kscan, held, getkey, ev_hist>>
    /\ UNCHANGED <<clockVars, buzzerVars, kpVars, kpHist, otherVars>>

\* Storage_SaveConfig, FLASH_Erase: on failure the call returns
SaveErase ==
    /\ cpu.save = "erase"
    /\ IF cpu.job.o = "erase_fail"
       THEN /\ StoreEffect(cpu.job.name, cpu.job.arg, [cpu.job.r EXCEPT !.flash = flash],
                           cpu.job.o)
            /\ storeReady' = (storeReady \/ cpu.job.name = "Storage_Init")
            /\ cpu' = SaveLeave(cpu)
       ELSE /\ flash' = ErasedSector
            /\ cpu' = [cpu EXCEPT !.save = "program"]
            /\ UNCHANGED <<g_cachedConfig, outConfig, storeReady, faults, histVars>>
    /\ UNCHANGED <<fill_calls, stamp, cmp, kscan, held, getkey, g_admin_logged_in, irq_hist, ev_hist>>
    /\ UNCHANGED <<clockVars, buzzerVars, kpVars, kpHist, otherVars>>

\* Storage_SaveConfig, FLASH_Program and the return
SaveProgram ==
    /\ cpu.save = "program"
    /\ StoreEffect(cpu.job.name, cpu.job.arg, cpu.job.r, cpu.job.o)
    /\ storeReady' = (storeReady \/ cpu.job.name = "Storage_Init")
    /\ cpu' = SaveLeave(cpu)
    /\ UNCHANGED <<fill_calls, stamp, cmp, kscan, held, getkey, g_admin_logged_in, irq_hist, ev_hist>>
    /\ UNCHANGED <<clockVars, buzzerVars, kpVars, kpHist, otherVars>>

AdminTick == PitTick(MaxTickAdmin)

\* PORTA_IRQHandler (priority 3): the motion edge is flagged
AdminMotion ==
    /\ ~cpu.primask
    /\ cpu.handler = "none"
    /\ ~g_pirDetected
    /\ g_pirDetected' = TRUE
    /\ UNCHANGED <<storeVars, histVars, fill_calls, stamp, ctxVars, clockVars, buzzerVars, kpVars, kpHist>>
    /\ UNCHANGED <<rfidVars, rfidHist, sec, ledAlarm, servo, secHist>>

\* a reset (power-on or watchdog) at any point, a Save under way included:
\* statics are zeroed again, the sector stays as it is
AdminReset ==
    /\ g_cachedConfig' = ZeroConfig
    /\ storeReady' = FALSE
    /\ op_name' = "reset"
    /\ op_arg' = 0
    /\ op_ret' = FALSE
    /\ op_saved' = FALSE
    /\ op_msg' = "none"
    /\ outConfig' = ZeroConfig
    /\ kscan' = ScanStatics
    /\ getkey' = NoCall
    /\ cpu' = CpuReset
    /\ g_admin_logged_in' = FALSE
    /\ irq_hist' = NoIrqHist
    /\ ev_hist' = NoEvHist
    /\ g_systemTick' = 0
    /\ g_pirDetected' = FALSE
    /\ UNCHANGED <<flash, faults, save_rec, save_ret, fill_calls, stamp, cmp, held>>
    /\ UNCHANGED <<buzzerVars, kpVars, kpHist, rfidVars, rfidHist, sec, ledAlarm, servo, secHist>>

NextAdmin ==
    \/ AdminStorageInit
    \/ AdminInitSave
    \/ AdminCommand
    \/ SaveErase
    \/ SaveProgram
    \/ AdminTick
    \/ AdminMotion
    \/ AdminReset

SpecAdmin == InitAdmin /\ [][NextAdmin]_vars

\* ------------------------------------------------------------------------
\* Card reader: cards come and go, the main loop calls RFID_Tick, the
\* orchestrator reads the new-card flag
\* ------------------------------------------------------------------------
\* the last tick of a card reader run, and the time between two polls
MaxTickRfid == 1000
RfidTickStep == 100
MaxCardEvents == 2

CardUids == {<<0, 0, 0, 17>>, ZeroUid}

\* what the chip may report with that card (or none) in the field
ChipAnswers(c) == IF c = NoCard THEN {"none"} ELSE ChipReports

\* a completed anticollision read inside its 25 ms
RfidReads(now, rf, ans) ==
    /\ rf.state = "RFID_ANTICOLL_SENT"
    /\ ~IsTimeout(now, rf.timer, 25)
    /\ ans = "ok"

\* a scan that ends without the identifier having been read
RfidFails(now, rf, ans) ==
    /\ rf.state \in {"RFID_REQ_SENT", "RFID_ANTICOLL_SENT"}
    /\ RFID_Tick(now, rf, ans, ZeroUid).state = "RFID_IDLE"
    /\ ~RfidReads(now, rf, ans)

\* the card history after one RFID_Tick
CardEffect(now, rf, ans) ==
    /\ card_events' = IF RfidReads(now, rf, ans) /\ card # rf.last_uid
                         /\ card_events < MaxCardEvents
                      THEN card_events + 1 ELSE card_events
    /\ card_read' = (card_read \/ RfidReads(now, rf, ans))
    /\ card_steady' = (card_steady /\ ~(card # NoCard /\ RfidFails(now, rf, ans)))
    /\ UNCHANGED <<card_left, card_prev, card_back>>

InitRfidSpec ==
    /\ g_cachedConfig = DefaultsOver(ZeroConfig)
    /\ flash = DefaultsOver(ZeroConfig)
    /\ outConfig = ZeroConfig
    /\ storeReady = TRUE
    /\ faults = 0
    /\ op_name = "Storage_Init"
    /\ op_arg = 0
    /\ op_ret = TRUE
    /\ op_saved = TRUE
    /\ op_msg = "Save Success"
    /\ save_rec = DefaultsOver(ZeroConfig)
    /\ save_ret = TRUE
    /\ fill_calls = 0
    /\ stamp = NoStamp
    /\ InitCtx
    /\ InitDevices
    /\ InitRfid
    /\ InitSec

notRfid == <<storeVars, histVars, fill_calls, stamp, ctxVars, buzzerVars, kpVars, kpHist, secVars, secHist>>

\* a card is brought into the field
CardEnter ==
    /\ card = NoCard
    /\ \E u \in CardUids :
         /\ card' = u
         /\ card_back' = (u = card_prev /\ Sub32(g_systemTick, card_left) > 500)
    /\ card_events' = 0
    /\ card_read' = FALSE
    /\ card_steady' = (rfid.state = "RFID_IDLE")
    /\ UNCHANGED <<rfid, card_left, card_prev, clockVars, notRfid>>

\* the card is taken out of the field
CardLeave ==
    /\ card # NoCard
    /\ card' = NoCard
    /\ card_left' = g_systemTick
    /\ card_prev' = card
    /\ UNCHANGED <<rfid, card_events, card_steady, card_read, card_back, clockVars, notRfid>>

\* one RFID_Tick call of the main loop
RfidPoll ==
    /\ \E ans \in ChipAnswers(card) :
         /\ rfid' = RFID_Tick(g_systemTick, rfid, ans, card)
         /\ CardEffect(g_systemTick, rfid, ans)
    /\ UNCHANGED <<card, clockVars, notRfid>>

\* the orchestrator reads the new-card flag
RfidConsume ==
    /\ rfid.result # 0
    /\ rfid' = RFID_GetLastScanResult(rfid).rf
    /\ UNCHANGED <<card, rfidHist, clockVars, notRfid>>

RfidTime ==
    /\ PIT_IRQHandler(RfidTickStep, MaxTickRfid)
    /\ UNCHANGED <<storeVars, histVars, fill_calls, stamp, ctxVars, kpVars, kpHist, otherVars>>

NextRfid ==
    \/ CardEnter
    \/ CardLeave
    \/ RfidPoll
    \/ RfidConsume
    \/ RfidTime

SpecRfid == InitRfidSpec /\ [][NextRfid]_vars

\* The card reader polled at the instants around its limits: a wake command
\* sent at tick 100 or 101, 24, 25 and 26 ms after a command, 99, 100 and
\* 101 ms after a wake command
ReaderTimes == {99, 100, 101, 124, 125, 126, 150, 199, 200, 201, 225, 226}
MaxTickReader == 226

ReaderTime ==
    /\ \E t \in ReaderTimes :
         /\ t > g_systemTick
         /\ \A u \in ReaderTimes : u > g_systemTick => t <= u
         /\ PIT_IRQHandler(t - g_systemTick, MaxTickReader)
    /\ UNCHANGED <<storeVars, histVars, fill_calls, stamp, ctxVars, kpVars, kpHist, otherVars>>

NextReader ==
    \/ CardEnter
    \/ CardLeave
    \/ RfidPoll
    \/ RfidConsume
    \/ ReaderTime

SpecReader == InitRfidSpec /\ [][NextReader]_vars

\* ------------------------------------------------------------------------
\* The whole system: the main loop (RFID_Tick, then Security_Update), the
\* interrupts (timer, key scan, motion edge), cards and the admin link
\* ------------------------------------------------------------------------
\* the time between two timer steps, the tick at which main reaches
\* Security_Init (after the startup sequence), and a tick late in the life
\* of the 32-bit counter, 3000 ms before it wraps
TickStep == 1000
BootTick == 1000
LateTick == -3000
MaxRun == 4
AdminUids == {17}

\* the sector left by earlier admin commands: PIN 1111, one authorized card
BootSector ==
    MkConfig(StrCpy(ZeroConfig.door_pin, <<"1", "1", "1", "1">>),
             StrCpy(ZeroConfig.admin_password, DefaultPass),
             [EmptyTable EXCEPT ![0] = 17], STORAGE_MAGIC)

\* in a run of the whole system a card in the field answers
MainAnswers(c) == IF c = NoCard THEN {"none"} ELSE {"ok"}

InitBoard ==
    /\ g_cachedConfig = BootSector
    /\ flash = BootSector
    /\ outConfig = ZeroConfig
    /\ storeReady = TRUE
    /\ faults = 0
    /\ op_name = "Storage_Init"
    /\ op_arg = 0
    /\ op_ret = TRUE
    /\ op_saved = FALSE
    /\ op_msg = "none"
    /\ save_rec = BootSector
    /\ save_ret = TRUE
    /\ fill_calls = 0
    /\ buzzerMOD = 2000
    /\ buzzerCnV = 0
    /\ g_buzzerTimeout = 0
    /\ g_pressed_key = NUL
    /\ kp_buffer = [i \in 1 .. PASS_LEN + 1 |-> NUL]
    /\ kp_index = 0
    /\ last_key_time_kp = 0
    /\ keyed = <<>>
    /\ keyed_from_empty = TRUE
    /\ key_ret = 0
    /\ key_pin = <<>>
    /\ card = NoCard
    /\ card_events = 0
    /\ card_steady = TRUE
    /\ card_read = FALSE
    /\ card_left = 0
    /\ card_prev = NoCard
    /\ card_back = FALSE
    /\ sec = BootedSec(BootTick)
    /\ g_pirDetected = FALSE
    /\ ledAlarm = FALSE
    /\ servo = "closed"
    /\ inv_run = 0
    /\ inv_states = {}
    /\ flag_card = NoCard
    /\ card_auth = AUTH_NONE
    /\ flag_due = FALSE
    /\ lock_closed = FALSE
    /\ lock_closed_at = 0
    /\ armed_clean = TRUE
    /\ boot_from = "none"
    /\ door = NoDoor

\* main has just run Storage_Init and Security_Init
InitBoot ==
    /\ InitBoard
    /\ g_systemTick = BootTick
    /\ rfid = RfidStatics
    /\ settled = FALSE
    /\ cycle_ran = FALSE
    /\ stamp = NoStamp
    /\ InitCtx

\* the system has stood armed and untouched since boot and the counter is
\* about to wrap; the last main loop pass was one timer step ago
InitLate ==
    /\ InitBoard
    /\ g_systemTick = LateTick
    /\ rfid = [RfidStatics EXCEPT !.state = "RFID_REQ_SENT",
                                  !.timer = Sub32(LateTick, TickStep),
                                  !.next_scan_time = Sub32(LateTick, TickStep)]
    /\ settled = TRUE
    /\ cycle_ran = TRUE
    /\ stamp = NoStamp
    /\ InitCtx

Board ==
    [sec |-> sec, kp |-> KpState, rf |-> rfid, pir |-> g_pirDetected,
     buz |-> [MOD |-> buzzerMOD, CnV |-> buzzerCnV, timeout |-> g_buzzerTimeout],
     led |-> ledAlarm, servo |-> servo, cyc |-> NoCycle]

\* Outputs_Tick run d times: the mute countdown, Buzzer_Off when it ends
Outputs_Tick(buz, d) ==
    [buz EXCEPT !.timeout = IF buz.timeout > d THEN buz.timeout - d ELSE 0,
                !.CnV = IF buz.timeout > 0 /\ buz.timeout <= d THEN 0 ELSE buz.CnV]

\* the board when __WFI() returns: d timer interrupts have run, the key scan
\* has latched key k (NUL: none), PORTA_IRQHandler has seen a motion edge or not
AfterInterrupts(d, k, motion) ==
    [Board EXCEPT !.kp = [KpState EXCEPT !.pressed = IF k = NUL THEN g_pressed_key ELSE k],
                  !.pir = (g_pirDetected \/ motion),
                  !.buz = Outputs_Tick(Board.buz, d)]

\* the board after the rest of the pass: RFID_Tick(); Security_Update();
LoopPass(now, woken, ans) ==
    Security_Update(now, [woken EXCEPT !.rf = RFID_Tick(now, rfid, ans, card)],
                    g_cachedConfig)

\* the card behind the new-card flag once RFID_Tick has run with answer ans
FlagCard(now, ans) ==
    IF RfidReads(now, rfid, ans) /\ card # rfid.last_uid THEN card ELSE flag_card

\* the history of the orchestrator after a main loop pass that left the
\* board as m, fc being the card behind the new-card flag in that pass
CycleEffect(now, m, fc) ==
    LET a == m.cyc.auth
        closedNow == m.sec.currentState = "STATE_DISARMED" /\ (lock_closed \/ m.cyc.closed)
        reset == \/ m.cyc.evaluated /\ a = AUTH_VALID
                 \/ m.cyc.state = "STATE_LOCKED" /\ m.sec.currentState = "STATE_TRIGGERED"
        invalid == m.cyc.evaluated /\ a = AUTH_INVALID
    IN  /\ settled' = (settled \/ m.cyc.processed)
        /\ inv_run' = IF reset THEN 0
                      ELSE IF invalid /\ inv_run < MaxRun THEN inv_run + 1
                      ELSE inv_run
        /\ inv_states' = IF reset THEN {}
                         ELSE IF invalid THEN inv_states \cup {m.cyc.state}
                         ELSE inv_states
        /\ flag_card' = IF m.rf.result = 0 THEN NoCard ELSE fc
        /\ card_auth' = m.cyc.rf_auth
        /\ flag_due' = (/\ m.cyc.rf > 0
                        /\ fc # NoCard
                        /\ fc # ZeroUid
                        /\ UidFound(g_cachedConfig, RFID_GetLastUID(fc)))
        /\ lock_closed' = closedNow
        /\ lock_closed_at' = IF ~closedNow THEN 0
                             ELSE IF m.cyc.closed THEN now ELSE lock_closed_at
        /\ armed_clean' = IF m.cyc.state # "STATE_ARMED"
                             /\ m.sec.currentState = "STATE_ARMED"
                          THEN (~m.pir /\ m.rf.result = 0 /\ m.kp.pressed = NUL)
                          ELSE armed_clean
        /\ boot_from' = boot_from
        /\ cycle_ran' = m.cyc.processed
        /\ door' = IF m.sec.currentState # "STATE_DISARMED" THEN NoDoor
                   ELSE IF sec.currentState # "STATE_DISARMED"
                   THEN [opens |-> 0, valid |-> m.cyc.evaluated /\ m.cyc.auth = AUTH_VALID]
                   ELSE IF m.cyc.opened /\ door.opens < 2
                   THEN [door EXCEPT !.opens = @ + 1]
                   ELSE door

\* One iteration of the super loop of main: __WFI() returns after the
\* interrupts that have arrived (the timer having advanced by a step out of
\* D; MainLoopOf: by 0 or TickStep,
\* a key out of K latched or none, a motion edge out of M), then RFID_Tick()
\* and Security_Update() run; runs end at tick maxTick
MainLoopStep(K, M, D, maxTick) ==
    /\ \E d \in D, k \in K \cup {NUL}, motion \in M,
          ans \in MainAnswers(card) :
         /\ g_systemTick + d <= maxTick
         /\ LET Pass(now, m) ==
                    /\ g_systemTick' = now
                    /\ sec' = m.sec
                    /\ rfid' = m.rf
                    /\ g_pirDetected' = m.pir
                    /\ buzzerMOD' = m.buz.MOD
                    /\ buzzerCnV' = m.buz.CnV
                    /\ g_buzzerTimeout' = m.buz.timeout
                    /\ ledAlarm' = m.led
                    /\ servo' = m.servo
                    /\ g_pressed_key' = m.kp.pressed
                    /\ kp_buffer' = m.kp.buffer
                    /\ kp_index' = m.kp.index
                    /\ last_key_time_kp' = m.kp.last
                    /\ CycleEffect(now, m, FlagCard(now, ans))
            IN  Pass(Add32(g_systemTick, d),
                     LoopPass(Add32(g_systemTick, d), AfterInterrupts(d, k, motion), ans))
    /\ UNCHANGED <<storeVars, histVars, fill_calls, stamp, ctxVars, card, kpHist, rfidHist>>

MainLoopOf(K, M, maxTick) == MainLoopStep(K, M, {0, TickStep}, maxTick)

\* a card out of U is brought into the field, and taken out of it
CardShownOf(U) ==
    /\ card = NoCard
    /\ \E u \in U : card' = u
    /\ UNCHANGED <<rfid, rfidHist, clockVars, notRfid>>

CardGone ==
    /\ card # NoCard
    /\ card' = NoCard
    /\ UNCHANGED <<rfid, rfidHist, clockVars, notRfid>>

\* RFIDDEL <uid> and RFIDADD <uid> on the admin link, the flash working
AdminRemoveRFID ==
    /\ \E u \in AdminUids :
         LET r == Storage_RemoveRFID(u, g_cachedConfig, flash, "ok")
         IN  g_cachedConfig' = r.cache /\ flash' = r.flash
    /\ UNCHANGED <<outConfig, storeReady, faults, histVars, fill_calls, nonStoreVars>>

AdminAddRFID ==
    /\ \E u \in AdminUids :
         LET r == Storage_AddRFID(u, g_cachedConfig, flash, "ok")
         IN  g_cachedConfig' = r.cache /\ flash' = r.flash
    /\ UNCHANGED <<outConfig, storeReady, faults, histVars, fill_calls, nonStoreVars>>

\* Every input, from boot up to the first seconds of monitoring
MaxTick == 2000
MainKeys == {"1", "2"}
MainCards == {<<0, 0, 0, 17>>, <<0, 0, 0, 42>>}

Init == InitBoot

MainLoop == MainLoopOf(MainKeys, BOOLEAN, MaxTick)

CardShown == CardShownOf(MainCards)

Next ==
    \/ MainLoop
    \/ CardShown
    \/ CardGone
    \/ AdminRemoveRFID
    \/ AdminAddRFID

Spec == Init /\ [][Next]_vars

\* Brute force: wrong PIN digits, the authorized card, motion, from boot
\* until an attempt can have been made in each of Armed, EntryDelay, Triggered
MaxTickBrute == 7000
BruteKeys == {"2"}
BruteCards == {<<0, 0, 0, 17>>}

BruteLoop == MainLoopOf(BruteKeys, BOOLEAN, MaxTickBrute)

BruteCardShown == CardShownOf(BruteCards)

NextBrute ==
    \/ BruteLoop
    \/ BruteCardShown
    \/ CardGone

SpecBrute == InitBoot /\ [][NextBrute]_vars

\* Lockout: wrong PIN digits, the authorized card and motion, from boot and
\* from a start shortly before the counter wraps, until a lockout has expired
MaxTickLock == 7000

InitLock == InitBoot \/ InitLate

LockLoop == MainLoopOf(BruteKeys, BOOLEAN, MaxTickLock)

LockCardShown == CardShownOf(BruteCards)

NextLock ==
    \/ LockLoop
    \/ LockCardShown
    \/ CardGone

SpecLock == InitLock /\ [][NextLock]_vars

\* The first moments of a lockout in steps of 10 ms: wrong PIN digits from
\* the armed state until the lockout has lasted some 250 ms
SirenStep == 10
SirenSpan == 400
MaxTickSiren == LateTick + SirenSpan

SirenLoop == MainLoopStep(BruteKeys, {FALSE}, {SirenStep}, MaxTickSiren)

NextSiren ==
    \/ SirenLoop
    \/ LockCardShown
    \/ CardGone

SpecSiren == InitLate /\ [][NextSiren]_vars

\* A lockout across the wrap: wrong PIN digits and the authorized card, from a
\* start 9000 ms before the counter wraps until 2000 ms after it
WrapTick == -9000
MaxTickWrap == 2000

InitWrap ==
    /\ InitBoard
    /\ g_systemTick = WrapTick
    /\ rfid = [RfidStatics EXCEPT !.state = "RFID_REQ_SENT",
                                  !.timer = Sub32(WrapTick, TickStep),
                                  !.next_scan_time = Sub32(WrapTick, TickStep)]
    /\ settled = TRUE
    /\ cycle_ran = TRUE
    /\ stamp = NoStamp
    /\ InitCtx

WrapLoop == MainLoopOf(BruteKeys, {FALSE}, MaxTickWrap)

NextWrap ==
    \/ WrapLoop
    \/ LockCardShown
    \/ CardGone

SpecWrap == InitWrap /\ [][NextWrap]_vars

\* The day's sequence: motion and the authorized card, no keys, from boot
\* until the system has disarmed, relocked and armed itself again
MaxTickSeq == 28000

SeqLoop == MainLoopOf({}, BOOLEAN, MaxTickSeq)

SeqCardShown == CardShownOf(BruteCards)

NextSeq ==
    \/ SeqLoop
    \/ SeqCardShown
    \/ CardGone

SpecSeq == InitBoot /\ [][NextSeq]_vars

\* Arming: at a start shortly before the counter wraps the authorized card
\* is shown; the system disarms, relocks and arms itself 20 s later; a main
\* loop pass every 2500 ms at the least, with wrong PIN digits and motion at
\* any time up to tick QuietFrom and nothing after it
ArmStep == 2500
QuietFrom == 14500
MaxTickArm == 19500

ArmLoop == MainLoopStep(BruteKeys, BOOLEAN, {0, ArmStep}, QuietFrom)

ArmQuiet == MainLoopStep({}, {FALSE}, {0, ArmStep}, MaxTickArm)

ArmCardShown ==
    /\ g_systemTick = LateTick
    /\ CardShownOf(BruteCards)

NextArm ==
    \/ ArmLoop
    \/ ArmQuiet
    \/ ArmCardShown
    \/ CardGone

SpecArm == InitLate /\ [][NextArm]_vars

\* Resuming: wrong PIN digits, the authorized card and a card that is not in
\* the table, from a start shortly before the counter wraps until a lockout
\* and a disarmed spell with its exit delay have passed
MaxTickResume == 19500

ResumeLoop == MainLoopStep(BruteKeys, {FALSE}, {0, ArmStep}, MaxTickResume)

NextResume ==
    \/ ResumeLoop
    \/ CardShown
    \/ CardGone

SpecResume == InitLate /\ [][NextResume]_vars

\* The same with wrong PIN digits as well, the timer interrupt never ceasing:
\* as long as the run has not reached its last tick, a main loop pass after
\* a timer step is eventually taken
MaxTickLive == 28000
MaxTickKeys == 2000

LiveLoop == MainLoopOf({}, {FALSE}, MaxTickLive)

\* the steps in which SysTick_Handler has advanced the counter: the main loop
\* passes that follow a timer step
ClockRuns ==
    /\ g_systemTick + TickStep <= MaxTickLive
    /\ g_systemTick' = Add32(g_systemTick, TickStep)

LiveKeys == MainLoopOf(BruteKeys, BOOLEAN, MaxTickKeys)

NextLive ==
    \/ LiveLoop
    \/ LiveKeys
    \/ BruteCardShown
    \/ CardGone

SpecLive == InitBoot /\ [][NextLive]_vars /\ WF_clockVars(ClockRuns)

\* The clock alone: a timestamp is taken with GetTick at some value of the
\* counter, then PIT_IRQHandler counts on, across the wrap of the counter too.
\* stamp keeps the timestamp and, as two 16-bit halves, the milliseconds that
\* have really gone by since it was taken (below 2^32).
MaxStampSteps == 4
StampStarts == {0, 1000, -3000, -1, 2147483647, -2147483647 - 1}
StampSteps == {1, 24, 475, 2000, 2500, 5000, 1073741824}
Durations == {0, 1, 25, 100, 500, 1000, 2000, 5000, 10000}

InitClock ==
    /\ InitBoard
    /\ rfid = RfidStatics
    /\ settled = TRUE
    /\ cycle_ran = TRUE
    /\ \E t \in StampStarts :
         /\ g_systemTick = t
         /\ stamp = [start |-> t, hi |-> 0, lo |-> 0, steps |-> 0]
    /\ InitCtx

\* PIT_IRQHandler has run d times since the last look at the counter
ClockAdvance ==
    /\ stamp.steps < MaxStampSteps
    /\ \E d \in StampSteps :
         LET lo == stamp.lo + Lo16(d)
             hi == stamp.hi + Hi16(d) + (lo \div HALF)
         IN  /\ hi < HALF
             /\ g_systemTick' = Add32(g_systemTick, d)
             /\ stamp' = [stamp EXCEPT !.hi = hi, !.lo = lo % HALF, !.steps = @ + 1]
    /\ UNCHANGED <<storeVars, histVars, fill_calls, ctxVars, buzzerVars, kpVars, kpHist, otherVars>>

\* the timestamp is overwritten with GetTick(), which re-arms the timeout
ClockRearm ==
    /\ stamp.steps > 0
    /\ stamp.steps < MaxStampSteps
    /\ stamp' = [start |-> g_systemTick, hi |-> 0, lo |-> 0, steps |-> stamp.steps]
    /\ UNCHANGED <<storeVars, histVars, fill_calls, ctxVars, clockVars, buzzerVars, kpVars, kpHist, otherVars>>

NextClock ==
    \/ ClockAdvance
    \/ ClockRearm

SpecClock == InitClock /\ [][NextClock]_vars

\* Restarts: a reset (power-on or watchdog) from any state, then main up to the
\* super loop.  The statics are back at their initial values and the timer
\* runs from PIT_Init on; a key k and a motion edge may be latched by the
\* interrupts while the startup sequence plays; Storage_Init loads the sector
\* (saving defaults, with flash outcome o, when it has no marker); Security_Init
\* runs last.  The card in the field stays where it is.
MaxTickBoot == 3000

Restart ==
    /\ \E k \in BruteKeys \cup {NUL}, motion \in BOOLEAN, o \in Outcomes :
         LET Booted(r, m) ==
                 /\ g_cachedConfig' = r.out
                 /\ flash' = r.flash
                 /\ faults' = IF r.saved /\ o # "ok" THEN faults + 1 ELSE faults
                 /\ sec' = m.sec
                 /\ rfid' = m.rf
                 /\ g_pirDetected' = m.pir
                 /\ servo' = m.servo
                 /\ g_pressed_key' = m.kp.pressed
                 /\ kp_buffer' = m.kp.buffer
                 /\ kp_index' = m.kp.index
                 /\ last_key_time_kp' = m.kp.last
         IN  Booted(Storage_LoadConfig(ZeroConfig, ZeroConfig, flash, o),
                    Security_Init(BootTick,
                        [sec |-> SecStatics,
                         kp |-> [pressed |-> k, buffer |-> [i \in 1 .. PASS_LEN + 1 |-> NUL],
                                 index |-> 0, last |-> 0],
                         rf |-> RfidStatics, pir |-> motion, servo |-> "closed"]))
    /\ g_systemTick' = BootTick
    /\ buzzerMOD' = 2000
    /\ buzzerCnV' = 0
    /\ g_buzzerTimeout' = 0
    /\ ledAlarm' = FALSE
    /\ settled' = FALSE
    /\ inv_run' = 0
    /\ inv_states' = {}
    /\ flag_card' = NoCard
    /\ card_auth' = AUTH_NONE
    /\ flag_due' = FALSE
    /\ lock_closed' = FALSE
    /\ lock_closed_at' = 0
    /\ armed_clean' = TRUE
    /\ boot_from' = sec.currentState
    /\ door' = NoDoor
    /\ cycle_ran' = FALSE
    /\ UNCHANGED <<outConfig, storeReady, histVars, fill_calls, stamp, ctxVars, card, kpHist, rfidHist>>

\* DELID <uid> on the admin link, the flash failing or not
AdminRemoveFaulty ==
    /\ \E u \in AdminUids, o \in Outcomes :
         LET r == Storage_RemoveRFID(u, g_cachedConfig, flash, o)
         IN  /\ g_cachedConfig' = r.cache
             /\ flash' = r.flash
             /\ faults' = IF r.saved /\ o # "ok" THEN faults + 1 ELSE faults
    /\ UNCHANGED <<outConfig, storeReady, histVars, fill_calls, nonStoreVars>>

BootLoop == MainLoopOf(BruteKeys, {FALSE}, MaxTickBoot)

NextBoot ==
    \/ BootLoop
    \/ Restart
    \/ AdminRemoveFaulty
    \/ BruteCardShown
    \/ CardGone

SpecBoot == InitBoot /\ [][NextBoot]_vars

\* ------------------------------------------------------------------------
\* Claims about the store
\* ------------------------------------------------------------------------
IsDefaultRecord(c) ==
    /\ CStr(c.door_pin) = DefaultPin
    /\ CStr(c.admin_password) = DefaultPass
    /\ c.authorized_uids = EmptyTable
    /\ c.magic_header = STORAGE_MAGIC

\* the instance the last load filled
LoadedInstance == IF op_name = "LoadFresh" THEN outConfig ELSE g_cachedConfig

\* C7: Storage_AddRFID(u) for a non-zero u already in the table reports
\* rejection, calls no Save and leaves every slot of the table (and the
\* sector) as it was.
C7_DuplicateRejected ==
    [][(/\ op_name' = "AddRFID"
        /\ op_arg' # 0
        /\ SlotsHolding(g_cachedConfig.authorized_uids, op_arg') # {})
       => (/\ op_ret' = FALSE
           /\ op_msg' = "already exists"
           /\ op_saved' = FALSE
           /\ g_cachedConfig' = g_cachedConfig
           /\ flash' = flash)]_vars

\* a duplicate add has just been rejected
C7_Witness ==
    /\ op_name = "AddRFID"
    /\ op_arg # 0
    /\ op_ret = FALSE
    /\ op_saved = FALSE
    /\ op_msg = "already exists"
    /\ SlotsHolding(g_cachedConfig.authorized_uids, op_arg) # {}

\* C9: when the latest Save(c), c carrying the marker, reported success, a
\* Load into a fresh instance yields a record equal to c in every field.
C9_RoundTrip ==
    [][(/\ op_name' = "LoadFresh"
        /\ save_ret
        /\ save_rec.magic_header = STORAGE_MAGIC)
       => outConfig' = save_rec]_vars

\* a fresh instance has been loaded with a saved record that is not the default
C9_Witness ==
    /\ op_name = "LoadFresh"
    /\ op_saved = FALSE
    /\ save_ret
    /\ outConfig = save_rec
    /\ ~IsDefaultRecord(outConfig)
    /\ outConfig.authorized_uids # EmptyTable

Occupied(uids) == {i \in Slots : uids[i] # 0}

\* C8: from an empty table, every Save succeeding, each of the first 50
\* AddRFID calls with a new non-zero identifier succeeds and stores it; the
\* 51st such call reports that the table is full and changes nothing.
C8_CapacityExhausted ==
    [][fill_calls' = fill_calls + 1
       => IF fill_calls' <= MAX_STORED_IDS
          THEN /\ op_ret' = TRUE
               /\ SlotsHolding(g_cachedConfig'.authorized_uids, op_arg') # {}
               /\ Cardinality(Occupied(g_cachedConfig'.authorized_uids)) = fill_calls'
               /\ flash' = g_cachedConfig'
          ELSE /\ op_ret' = FALSE
               /\ op_msg' = "Memory Full"
               /\ op_saved' = FALSE
               /\ g_cachedConfig' = g_cachedConfig
               /\ flash' = flash]_vars

\* the 51st new identifier has been refused by a full table
C8_Witness ==
    /\ fill_calls = MAX_STORED_IDS + 1
    /\ op_name = "AddRFID"
    /\ op_ret = FALSE
    /\ op_msg = "Memory Full"
    /\ Cardinality(Occupied(g_cachedConfig.authorized_uids)) = MAX_STORED_IDS
    /\ SlotsHolding(g_cachedConfig.authorized_uids, op_arg) = {}

\* ------------------------------------------------------------------------
\* Claims about PIN entry
\* ------------------------------------------------------------------------
\* a door PIN of exactly 4 keypad characters
WellFormedPin(p) == Len(p) = 4 /\ \A i \in 1 .. 4 : PinCharOk(p[i])

\* C5 as stated: with a well-formed door PIN p in force, the fourth key of an
\* entry begun on an empty buffer makes Keypad_CheckPassword return match (1)
\* when the four keys are p and mismatch (-1) when they are anything else.
C5_AsStated ==
    (Len(keyed) = PASS_LEN /\ keyed_from_empty /\ WellFormedPin(key_pin))
        => key_ret = (IF keyed = key_pin THEN 1 ELSE -1)

\* the same restricted to entries that do not contain the abort key
C5_WithoutAbortKey ==
    (/\ Len(keyed) = PASS_LEN
     /\ keyed_from_empty
     /\ WellFormedPin(key_pin)
     /\ \A i \in 1 .. PASS_LEN : keyed[i] # "#")
        => key_ret = (IF keyed = key_pin THEN 1 ELSE -1)

\* ------------------------------------------------------------------------
\* Claims about the card reader
\* ------------------------------------------------------------------------
\* C4 as stated: a card that stays in the field and has answered every scan
\* with its identifier has raised exactly one new-card event once a scan has
\* read it, however long it stays; and when it is the previous card back
\* after more than 500 ms of absence, that event is raised again.
C4_AsStated ==
    (card # NoCard /\ card_steady /\ card_read) => card_events = 1

\* the failure does not need the all-zero identifier: a card with a non-zero
\* identifier that stays and answers every scan raises a second event
C4_Refires == card # NoCard /\ card # ZeroUid /\ card_steady /\ card_events = 2

\* the second half alone, for a non-zero identifier: the previous card, back
\* after more than 500 ms, raises an event at the first scan that reads it
C4_SecondEvent ==
    (card # NoCard /\ card # ZeroUid /\ card_back /\ card_read) => card_events >= 1

\* ------------------------------------------------------------------------
\* Claims about the orchestrator
\* ------------------------------------------------------------------------
\* C6 as stated: a card evaluated by a cycle is resolved to Valid exactly when
\* the identifier of the presented card is non-zero and in the authorized
\* table at that moment, and to Invalid otherwise.
C6_AsStated ==
    card_auth # AUTH_NONE => (card_auth = AUTH_VALID <=> flag_due)

\* one direction holds: no card is resolved to Valid unless its identifier is
\* non-zero and in the table at the check, so a removed identifier is denied
C6_NeverWronglyValid ==
    card_auth = AUTH_VALID => flag_due

\* C1: counting from a failed-attempt counter of 0, the third Invalid result
\* with no Valid result in between leaves the orchestrator in Locked at the
\* end of the very cycle that produced it, in whichever of Armed, EntryDelay
\* and Triggered the three attempts were evaluated; the counter follows the
\* count of Invalid results and no fourth one is ever evaluated.
C1_ThirdInvalidLocks ==
    /\ sec.failedAttempts = inv_run
    /\ inv_run <= 3
    /\ inv_run = 3 => sec.currentState = "STATE_LOCKED"

C1_Witness ==
    /\ inv_run = 3
    /\ sec.currentState = "STATE_LOCKED"
    /\ inv_states = {"STATE_ARMED", "STATE_ENTRY_DELAY", "STATE_TRIGGERED"}

\* C2 as stated: every main loop cycle that starts in Locked leaves the
\* new-card flag and the key event empty and the PIN buffer untouched, ends in
\* Locked or Triggered, and while it stays in Locked the counter is unchanged.
C2_AsStated ==
    [][(sec.currentState = "STATE_LOCKED" /\ card' = card)
          => (/\ rfid'.result = 0
              /\ g_pressed_key' = NUL
              /\ kp_buffer' = kp_buffer
              /\ kp_index' = kp_index
              /\ sec'.currentState \in {"STATE_LOCKED", "STATE_TRIGGERED"}
              /\ (sec'.currentState = "STATE_LOCKED"
                     => sec'.failedAttempts = sec.failedAttempts))]_vars

\* the same for the cycles that pass the startup guard of Security_Update
C2_ProcessedCycles ==
    [][(/\ sec.currentState = "STATE_LOCKED"
        /\ card' = card
        /\ ~Below32(g_systemTick', STARTUP_DELAY_MS))
          => (/\ rfid'.result = 0
              /\ g_pressed_key' = NUL
              /\ kp_buffer' = kp_buffer
              /\ kp_index' = kp_index
              /\ sec'.currentState \in {"STATE_LOCKED", "STATE_TRIGGERED"}
              /\ (sec'.currentState = "STATE_LOCKED"
                     => sec'.failedAttempts = sec.failedAttempts))]_vars

\* a lockout that began before the counter wrapped has expired into Triggered
C2_Expired == sec.currentState = "STATE_TRIGGERED" /\ inv_run = 0 /\ sec.stateEntryTime < 0

\* C3 as stated, leg by leg at the end of every main loop cycle: until the
\* first processed cycle (at 2000 ms or later) the state is Armed; EntryDelay
\* is left once 5000 ms have passed; in Disarmed the lock is open until 5000 ms
\* have passed and closes then; once 1000 ms have passed since the lock closed
\* the state is ExitDelay; ExitDelay is left for Armed once 10000 ms have
\* passed, with the motion flag, the new-card flag and the key event empty.
C3_AsStated ==
    /\ ~settled => sec.currentState = "STATE_ARMED"
    /\ settled => ~Below32(g_systemTick, STARTUP_DELAY_MS)
    /\ sec.currentState = "STATE_ENTRY_DELAY"
          => ~IsTimeout(g_systemTick, sec.stateEntryTime, ENTRY_DELAY_MS)
    /\ (sec.currentState = "STATE_DISARMED" /\ sec.doorUnlockedMsg /\ ~lock_closed)
          => (/\ servo = "open"
              /\ Below32(Sub32(g_systemTick, sec.stateEntryTime), DISARM_WINDOW_MS))
    /\ lock_closed => servo = "closed"
    /\ lock_closed => ~IsTimeout(g_systemTick, lock_closed_at, AUTO_LOCK_DELAY_MS)
    /\ sec.currentState = "STATE_EXIT_DELAY"
          => ~IsTimeout(g_systemTick, sec.stateEntryTime, EXIT_DELAY_MS)
    /\ armed_clean

\* every leg but the 1000 ms one holds
C3_OtherLegs ==
    /\ ~settled => sec.currentState = "STATE_ARMED"
    /\ settled => ~Below32(g_systemTick, STARTUP_DELAY_MS)
    /\ sec.currentState = "STATE_ENTRY_DELAY"
          => ~IsTimeout(g_systemTick, sec.stateEntryTime, ENTRY_DELAY_MS)
    /\ (sec.currentState = "STATE_DISARMED" /\ sec.doorUnlockedMsg /\ ~lock_closed)
          => (/\ servo = "open"
              /\ Below32(Sub32(g_systemTick, sec.stateEntryTime), DISARM_WINDOW_MS))
    /\ lock_closed => servo = "closed"
    /\ sec.currentState = "STATE_EXIT_DELAY"
          => ~IsTimeout(g_systemTick, sec.stateEntryTime, EXIT_DELAY_MS)
    /\ armed_clean

\* what the code does instead: ExitDelay begins DISARM_WINDOW_MS after the
\* lock has closed, never earlier
C3_ExitDelayAfterWindow ==
    lock_closed => ~IsTimeout(g_systemTick, lock_closed_at, DISARM_WINDOW_MS)

C3_StillDisarmed ==
    lock_closed /\ Sub32(g_systemTick, lock_closed_at) = 4000

\* the whole sequence can be run: Armed again after a visit to ExitDelay
C3_ArmedAgain ==
    sec.currentState = "STATE_ARMED" /\ sec.toggleExitDelay /\ g_systemTick >= 27000

\* C11 as stated: once a load has completed for the first time, the sector
\* holds a record whose marker matches, in every later state, across updates,
\* failed saves and resets.
C11_AsStated ==
    op_name # "none" => flash.magic_header = STORAGE_MAGIC

\* it holds for as long as no erase or program has failed
C11_WhileFlashWorks ==
    (op_name # "none" /\ faults = 0) => flash.magic_header = STORAGE_MAGIC

\* a sector that held a valid record is blank after an update whose program
\* step failed
C11_RecordLost ==
    /\ op_name = "UpdatePIN"
    /\ ~op_ret
    /\ faults = 1
    /\ flash = ErasedSector

\* the postcondition of a restart, but for the store
RestartedArmed ==
    /\ sec.currentState = "STATE_ARMED"
    /\ sec.failedAttempts = 0
    /\ sec.stateEntryTime = g_systemTick
    /\ servo = "closed"
    /\ ~g_pirDetected
    /\ rfid.result = 0
    /\ g_pressed_key = NUL
    /\ ~settled

CycleInput(k, ans) ==
    [AfterInterrupts(0, k, FALSE) EXCEPT !.rf = RFID_Tick(g_systemTick, rfid, ans, card)]

\* the arbiter's table: kp is what the keypad reports (1 match, -1 mismatch,
\* 0 in progress, 2 abort), newCard whether a card was newly presented,
\* authorized whether its identifier is in the table
ArbiterTable(kp, newCard, authorized) ==
    IF kp = 1 \/ (newCard /\ authorized) THEN AUTH_VALID
    ELSE IF kp = -1 \/ (newCard /\ ~authorized) THEN AUTH_INVALID
    ELSE AUTH_NONE

\* C13: for every input a cycle can be handed, Check_Auth yields Valid if the
\* keypad reports match or a newly presented card is authorized, otherwise
\* Invalid if the keypad reports mismatch or a newly presented card is not
\* authorized, otherwise None (abort and in progress included); Valid wins when
\* the two sources disagree; and the evaluation written inline in the Armed
\* state yields the same as Check_Auth, result and consumed inputs alike.
C13_ArbiterResult ==
    \A k \in MainKeys \cup {NUL}, ans \in MainAnswers(card) :
        LET Agrees(b) ==
                LET Same(kp, r, ra) ==
                        /\ r.cyc.auth = ArbiterTable(kp.ret, b.rf.result > 0,
                                            UidFound(g_cachedConfig,
                                                     RFID_GetLastUID(b.rf.last_uid)))
                        /\ r.cyc.auth \in {AUTH_VALID, AUTH_INVALID, AUTH_NONE}
                        /\ (kp.ret \in {0, 2} /\ b.rf.result = 0 => r.cyc.auth = AUTH_NONE)
                        /\ ra = r
                IN  Same(Keypad_CheckPassword(g_systemTick, b.kp, g_cachedConfig),
                         Check_Auth(g_systemTick, b, g_cachedConfig),
                         Armed_Auth(g_systemTick, b, g_cachedConfig))
        IN  Agrees(CycleInput(k, ans))

\* a cycle is about to be handed a fourth wrong digit together with a newly
\* read authorized card, in Armed after the settle window
C13_Witness ==
    /\ sec.currentState = "STATE_ARMED"
    /\ ~Below32(g_systemTick, STARTUP_DELAY_MS)
    /\ \E k \in MainKeys, ans \in MainAnswers(card) :
           LET Conflict(b) ==
                   /\ Keypad_CheckPassword(g_systemTick, b.kp, g_cachedConfig).ret = -1
                   /\ b.rf.result > 0
                   /\ UidFound(g_cachedConfig, RFID_GetLastUID(b.rf.last_uid))
                   /\ Check_Auth(g_systemTick, b, g_cachedConfig).cyc.auth = AUTH_VALID
           IN  Conflict(CycleInput(k, ans))

\* C14 as stated: a main loop pass is discarded by the startup guard as long
\* as the settle window has not elapsed, and leaves the state as Security_Init
\* set it; the first pass at 2000 ms or later is processed, and after it no
\* pass is discarded any more, the counter wrapping or not.
C14_AsStated ==
    /\ ~settled => (/\ ~cycle_ran
                    /\ Below32(g_systemTick, STARTUP_DELAY_MS)
                    /\ sec = BootedSec(BootTick)
                    /\ servo = "closed")
    /\ settled => cycle_ran

\* the system has run past the wrap of the counter and its passes are
\* processed again
C14_SettledAgain ==
    /\ settled
    /\ cycle_ran
    /\ g_systemTick >= STARTUP_DELAY_MS
    /\ sec.stateEntryTime < 0

\* whether at least d milliseconds have really gone by since the timestamp
\* was taken, d below 2^31
GoneBy(d) == stamp.hi >= 32768 \/ stamp.hi * HALF + stamp.lo >= d

\* C15: for every timestamp, every time gone by since below 2^32 ms and every
\* duration, IsTimeout answers true exactly when that time is the duration or
\* more, which is (now - start) mod 2^32 >= d, the counter having wrapped since
\* the timestamp or not.
C15_TimedOut ==
    \A d \in Durations :
        IsTimeout(g_systemTick, stamp.start, d) <=> GoneBy(d)

\* the counter has wrapped since the timestamp was taken; 5000 ms have gone
\* by: the 5000 ms timeout has run out, the 10000 ms one has not
C15_Witness ==
    /\ stamp.start = -3000
    /\ g_systemTick = 2000
    /\ stamp.hi = 0
    /\ stamp.lo = 5000
    /\ IsTimeout(g_systemTick, stamp.start, 5000)
    /\ ~IsTimeout(g_systemTick, stamp.start, 10000)

\* C16: in every reachable state the failed-attempt counter is between 0 and
\* 3, and it is 3 exactly when the state is Locked.
C16_CounterRange ==
    /\ sec.failedAttempts \in 0 .. BRUTE_FORCE_LIMIT
    /\ sec.failedAttempts = BRUTE_FORCE_LIMIT <=> sec.currentState = "STATE_LOCKED"

\* half of a lockout has gone by
C16_Witness ==
    /\ sec.currentState = "STATE_LOCKED"
    /\ sec.failedAttempts = BRUTE_FORCE_LIMIT
    /\ Sub32(g_systemTick, sec.stateEntryTime) = 5000

\* C17: the alarm volume is between 10 and 50 in every reachable state; an
\* Invalid result in Triggered raises it by 10 but not above 50; in Locked it
\* is 50; the EntryDelay timeout resets it to 10; nothing else changes it.
C17_VolumeRange ==
    [][/\ sec.alarmVolume \in INITIAL_VOLUME .. MAX_VOLUME
       /\ sec'.alarmVolume \in INITIAL_VOLUME .. MAX_VOLUME
       /\ sec'.currentState = "STATE_LOCKED" => sec'.alarmVolume = MAX_VOLUME
       /\ (sec.currentState = "STATE_TRIGGERED" /\ sec'.failedAttempts = sec.failedAttempts + 1)
             => sec'.alarmVolume = (IF sec.alarmVolume + 10 > MAX_VOLUME
                                       \/ sec'.currentState = "STATE_LOCKED"
                                    THEN MAX_VOLUME ELSE sec.alarmVolume + 10)
       /\ (sec.currentState = "STATE_ENTRY_DELAY" /\ sec'.currentState = "STATE_TRIGGERED")
             => sec'.alarmVolume = INITIAL_VOLUME
       /\ sec'.alarmVolume # sec.alarmVolume
             => \/ sec.currentState = "STATE_TRIGGERED"
                      /\ sec'.failedAttempts = sec.failedAttempts + 1
                \/ sec.currentState # "STATE_LOCKED" /\ sec'.currentState = "STATE_LOCKED"
                \/ sec.currentState = "STATE_ENTRY_DELAY"
                      /\ IsTimeout(g_systemTick', sec.stateEntryTime, ENTRY_DELAY_MS)]_vars

\* an Invalid result in Triggered at full volume, after a lockout has expired:
\* the volume has stayed at 50
C17_Witness ==
    /\ sec.currentState = "STATE_TRIGGERED"
    /\ sec.failedAttempts = 1
    /\ sec.alarmVolume = MAX_VOLUME

\* an Invalid result in Triggered has raised the volume from 10 to 20
C17_Raised ==
    /\ sec.currentState = "STATE_TRIGGERED"
    /\ sec.failedAttempts = 1
    /\ sec.alarmVolume = INITIAL_VOLUME + 10

\* C18: the failed-attempt counter is 0 at the end of every cycle that enters
\* Disarmed (from Armed, EntryDelay or Triggered) and of the cycle in which a
\* lockout expires (Locked to Triggered).
C18_CounterReset ==
    [][(\/ sec'.currentState = "STATE_DISARMED" /\ sec.currentState # "STATE_DISARMED"
        \/ sec.currentState = "STATE_LOCKED" /\ sec'.currentState = "STATE_TRIGGERED")
          => sec'.failedAttempts = 0]_vars

\* Disarmed has just been entered from Triggered after two Invalid results
\* there had raised the volume
C18_Witness ==
    /\ sec.currentState = "STATE_DISARMED"
    /\ sec.stateEntryTime = g_systemTick
    /\ ~sec.doorUnlockedMsg
    /\ sec.alarmVolume = INITIAL_VOLUME + 20
    /\ sec.failedAttempts = 0

\* C19 as stated, over every step: the state is never Locked once 10000 ms
\* have gone by since the lockout began; Locked is left only for Triggered,
\* only then, and with the counter 0 and the new-card flag and key event
\* empty; while it lasts, no input moves its beginning.
C19_AsStated ==
    [][/\ sec'.currentState = "STATE_LOCKED"
             => ~IsTimeout(g_systemTick', sec'.stateEntryTime, LOCKOUT_TIME_MS)
       /\ (sec.currentState = "STATE_LOCKED" /\ sec'.currentState = "STATE_LOCKED")
             => sec'.stateEntryTime = sec.stateEntryTime
       /\ (sec.currentState = "STATE_LOCKED" /\ sec'.currentState # "STATE_LOCKED")
             => (/\ sec'.currentState = "STATE_TRIGGERED"
                 /\ IsTimeout(g_systemTick', sec.stateEntryTime, LOCKOUT_TIME_MS)
                 /\ sec'.failedAttempts = 0
                 /\ rfid'.result = 0
                 /\ g_pressed_key' = NUL)]_vars

\* a lockout has gone on for 10000 ms or more
C19_Overdue ==
    /\ sec.currentState = "STATE_LOCKED"
    /\ IsTimeout(g_systemTick, sec.stateEntryTime, LOCKOUT_TIME_MS)

\* and ends at the first processed pass
C19_EndsLate ==
    /\ sec.currentState = "STATE_TRIGGERED"
    /\ sec.failedAttempts = 0
    /\ g_systemTick = STARTUP_DELAY_MS
    /\ sec.lastAlarmToggle = g_systemTick
    /\ sec.stateEntryTime = WrapTick

\* the longest the orchestrator can take from a state to Armed or Triggered
WorstCase(state) ==
    CASE state = "STATE_ENTRY_DELAY" ->
             ENTRY_DELAY_MS + 2 * DISARM_WINDOW_MS + EXIT_DELAY_MS
      [] state = "STATE_DISARMED" -> 2 * DISARM_WINDOW_MS + EXIT_DELAY_MS
      [] state = "STATE_EXIT_DELAY" -> EXIT_DELAY_MS
      [] state = "STATE_LOCKED" -> LOCKOUT_TIME_MS
      [] OTHER -> 0

Safe == sec.currentState \in {"STATE_ARMED", "STATE_TRIGGERED"}

\* C20: with the timer running and the main loop being run, the orchestrator
\* gets from every state that is neither Armed nor Triggered to Armed or
\* Triggered, whatever arrives meanwhile (stated for the states from which
\* the longest way there ends before the last tick of the run).
C20_Eventually ==
    (~Safe /\ g_systemTick + WorstCase(sec.currentState) <= MaxTickLive) ~> Safe

\* the system has armed itself again at the end of an exit delay, and
\* separately has left a lockout for Triggered
C20_Witness ==
    /\ sec.currentState = "STATE_ARMED"
    /\ g_systemTick = sec.stateEntryTime + EXIT_DELAY_MS
    /\ sec.stateEntryTime >= STARTUP_DELAY_MS + 2 * DISARM_WINDOW_MS
    /\ ~sec.waitingForAutoLock
    /\ servo = "closed"

C20_LockedLeft ==
    /\ sec.currentState = "STATE_TRIGGERED"
    /\ sec.failedAttempts = 0
    /\ g_systemTick = sec.stateEntryTime + LOCKOUT_TIME_MS
    /\ sec.lastAlarmToggle = g_systemTick

\* C21 as stated: Storage_UpdatePIN with a PIN whose length is not 4 returns
\* false, saves nothing and leaves door_pin as it was, and the door PIN of a
\* loaded store always has 4 characters.
C21_AsStated ==
    [][/\ (op_name' = "UpdatePIN" /\ UpdatePIN /\ Len(op_arg') # 4)
             => (/\ ~op_ret'
                 /\ ~op_saved'
                 /\ g_cachedConfig'.door_pin = g_cachedConfig.door_pin)
       /\ storeReady' => StrLen(g_cachedConfig'.door_pin) = 4]_vars

\* what the length test does reject: a PIN of more than 4 characters
C21_LongRejected ==
    [][(op_name' = "UpdatePIN" /\ UpdatePIN /\ Len(op_arg') > 4)
          => (/\ ~op_ret'
              /\ ~op_saved'
              /\ g_cachedConfig' = g_cachedConfig
              /\ flash' = flash)]_vars

\* a PIN of two characters has been accepted, saved and is the door PIN
C21_ShortStored ==
    /\ op_name = "UpdatePIN"
    /\ Len(op_arg) = 2
    /\ op_ret
    /\ op_saved
    /\ CStr(g_cachedConfig.door_pin) = op_arg
    /\ flash.door_pin = g_cachedConfig.door_pin

\* the identifiers stored in a table: its non-zero entries (0 marks an empty slot)
StoredIds(uids) == {uids[i] : i \in Slots} \ {0}

\* a Storage_RemoveRFID(u) step in which u matched a stored identifier clears
\* every slot holding u, leaves the others, saves, and returns what the Save
\* returned; one in which no stored identifier equals u returns false, saves
\* nothing and leaves cache and sector as they were
RemoveAsStated(u) ==
    IF u \in StoredIds(g_cachedConfig.authorized_uids)
    THEN /\ g_cachedConfig'.authorized_uids =
               [i \in Slots |-> IF g_cachedConfig.authorized_uids[i] = u
                                THEN 0 ELSE g_cachedConfig.authorized_uids[i]]
         /\ op_saved'
         /\ op_ret' = save_ret'
         /\ save_rec' = g_cachedConfig'
    ELSE /\ ~op_ret'
         /\ ~op_saved'
         /\ op_msg' = "not found"
         /\ g_cachedConfig' = g_cachedConfig
         /\ flash' = flash

\* C22 as stated: every Storage_RemoveRFID(u), for every argument u, behaves
\* as above (success being reported when the Save that follows succeeded).
C22_AsStated ==
    [][(op_name' = "RemoveRFID" /\ RemoveRFID) => RemoveAsStated(op_arg')]_vars

\* the same for every argument other than 0
C22_NonZero ==
    [][(op_name' = "RemoveRFID" /\ RemoveRFID /\ op_arg' # 0)
          => RemoveAsStated(op_arg')]_vars

\* Storage_RemoveRFID(0) has found the empty slots, saved and returned true
C22_ZeroRemoved ==
    /\ op_name = "RemoveRFID"
    /\ op_arg = 0
    /\ op_ret
    /\ op_saved
    /\ op_msg = "Save Success"

\* an identifier held by the table has been removed
C22_Removed ==
    /\ op_name = "RemoveRFID"
    /\ op_arg = 17
    /\ op_ret
    /\ 17 \notin StoredIds(g_cachedConfig.authorized_uids)
    /\ 42 \in StoredIds(g_cachedConfig.authorized_uids)

\* the tests by which the five update operations accept their argument
\* (storage_mgr.c:130, 138, 146-158, 171-178; FactoryReset has none)
Accepts(name, arg, uids) ==
    CASE name = "UpdatePIN" -> Len(arg) <= 4
      [] name = "UpdateAdminPass" -> Len(arg) <= 9
      [] name = "AddRFID" ->
             /\ arg # 0
             /\ \A i \in Slots : uids[i] # arg
             /\ \E i \in Slots : uids[i] = 0
      [] name = "RemoveRFID" -> \E i \in Slots : uids[i] = arg
      [] OTHER -> TRUE

UpdateStep ==
    \/ op_name' = "UpdatePIN" /\ UpdatePIN
    \/ op_name' = "UpdateAdminPass" /\ UpdateAdminPass
    \/ op_name' = "AddRFID" /\ AddRFID
    \/ op_name' = "RemoveRFID" /\ RemoveRFID
    \/ op_name' = "FactoryReset" /\ FactoryReset

\* C23: an update operation that accepts its argument ends in a Save of the
\* record the cache then holds, and when that Save succeeds the sector is
\* that whole record, marker included; one that rejects its argument returns
\* false without a Save and leaves cache and sector as they were.
C23_OneSave ==
    [][UpdateStep =>
         IF Accepts(op_name', op_arg', g_cachedConfig.authorized_uids)
         THEN /\ op_saved'
              /\ save_rec' = g_cachedConfig'
              /\ op_ret' = save_ret'
              /\ op_ret' => (/\ flash' = g_cachedConfig'
                             /\ flash'.magic_header = STORAGE_MAGIC)
              /\ ~op_ret' => faults' = faults + 1
         ELSE /\ ~op_saved'
              /\ ~op_ret'
              /\ g_cachedConfig' = g_cachedConfig
              /\ flash' = flash
              /\ save_rec' = save_rec
              /\ faults' = faults]_vars

\* an admin password of 10 characters has just been rejected while the cache
\* held a changed record that an earlier accepted update had saved
C23_Witness ==
    /\ op_name = "UpdateAdminPass"
    /\ Len(op_arg) = 10
    /\ ~op_ret
    /\ ~op_saved
    /\ save_rec = g_cachedConfig
    /\ flash = g_cachedConfig
    /\ CStr(g_cachedConfig.admin_password) = <<"a", "b">>

\* an update operation that returns a result has made a Save that failed
FailedSave ==
    /\ UpdateStep
    /\ op_name' # "FactoryReset"
    /\ op_saved'
    /\ ~save_ret'

\* C25 as stated: after a failed Save the cache holds the record passed to
\* it, cache and sector differ, and the operation has returned false.
C25_AsStated ==
    [][FailedSave => (/\ g_cachedConfig' = save_rec'
                      /\ g_cachedConfig' # flash'
                      /\ ~op_ret')]_vars

\* C25, amended: after a failed Save the cache holds the record passed to it
\* and the operation has returned false; the sector is as it was (the erase
\* failed) or has lost its marker (the program failed), so it differs from
\* the cache unless the erase failed and the record passed is the one
\* stored; the PIN check and the card lookup answer from the cache.
C25_NoRollback ==
    [][FailedSave =>
         (/\ g_cachedConfig' = save_rec'
          /\ ~op_ret'
          /\ flash' = flash \/ flash'.magic_header # STORAGE_MAGIC
          /\ g_cachedConfig' = flash' => (flash' = flash /\ flash = g_cachedConfig')
          /\ op_name' = "UpdatePIN" =>
                Security_CheckPassword(StrCpy(ZeroConfig.door_pin, op_arg'), g_cachedConfig')
          /\ op_name' = "AddRFID" => UidFound(g_cachedConfig', op_arg')
          /\ op_name' = "RemoveRFID" /\ op_arg' # 0 => ~UidFound(g_cachedConfig', op_arg'))]_vars

\* a new PIN is in the cache and is the one the PIN check accepts, the Save
\* has failed, and the sector still holds the record with the old PIN
C25_Witness ==
    /\ op_name = "UpdatePIN"
    /\ op_saved
    /\ ~op_ret
    /\ op_arg = <<"4", "3", "2", "1">>
    /\ Security_CheckPassword(StrCpy(ZeroConfig.door_pin, op_arg), g_cachedConfig)
    /\ flash.magic_header = STORAGE_MAGIC
    /\ ~Security_CheckPassword(StrCpy(ZeroConfig.door_pin, op_arg), flash)

\* the erase has failed on a Save of the record that the sector holds
C25_SameRecord ==
    /\ op_saved
    /\ ~op_ret
    /\ op_name \in {"UpdatePIN", "UpdateAdminPass", "AddRFID", "RemoveRFID"}
    /\ g_cachedConfig = flash

\* a table of MAX_STORED_IDS slots in which no identifier other than 0 is
\* held twice: as many different identifiers as slots in use
TableOk(uids) ==
    /\ DOMAIN uids = Slots
    /\ Cardinality(DOMAIN uids) = 50
    /\ Cardinality(StoredIds(uids)) = Cardinality(Slots \ SlotsHolding(uids, 0))

\* C27: the table of the cache, and of the sector when its marker is valid,
\* always has 50 slots and never holds an identifier other than 0 twice,
\* and Storage_AddRFID(0) stores nothing.
C27_TableUnique ==
    [][/\ TableOk(g_cachedConfig'.authorized_uids)
       /\ flash'.magic_header = STORAGE_MAGIC => TableOk(flash'.authorized_uids)
       /\ (op_name' = "AddRFID" /\ AddRFID /\ op_arg' = 0)
             => (/\ ~op_ret'
                 /\ ~op_saved'
                 /\ g_cachedConfig' = g_cachedConfig
                 /\ flash' = flash)
       /\ (op_name' = "AddRFID" /\ AddRFID /\ op_saved')
             => (/\ op_arg' # 0
                 /\ StoredIds(g_cachedConfig'.authorized_uids)
                       = StoredIds(g_cachedConfig.authorized_uids) \cup {op_arg'}
                 /\ SlotsHolding(g_cachedConfig'.authorized_uids, 0)
                       \subseteq SlotsHolding(g_cachedConfig.authorized_uids, 0))]_vars

\* an identifier has been added again into the gap that a removal left below
\* the other stored identifier
C27_Witness ==
    /\ op_name = "AddRFID"
    /\ op_ret
    /\ g_cachedConfig.authorized_uids[0] = op_arg
    /\ g_cachedConfig.authorized_uids[1] # 0
    /\ g_cachedConfig.authorized_uids[1] # op_arg
    /\ flash = g_cachedConfig

C30_HeldOn ==
    /\ ev_hist.run_len = RunCap
    /\ ~ev_hist.fired
    /\ kscan.last_valid_key = ev_hist.run_char

\* C29 as stated: whatever the interleaving of the scan interrupt with
\* Keypad_GetKeyNonBlocking, no call returns an event a second time and no
\* call erases a latched event other than the one it returns.
C29_AsStated == ~ev_hist.twice /\ ~ev_hist.erased

\* C29, the part that holds: a call returns the null character only when it
\* found no event pending, a call that returns a key returns the event it read,
\* and no event is returned twice
C29_OnceOrNull ==
    [][/\ ~ev_hist'.twice
       /\ (GetKeyTest /\ getkey'.pc = "idle") => g_pressed_key = NUL /\ ev_hist'.ret = NUL
       /\ GetKeyRead => getkey'.k = g_pressed_key /\ getkey'.k # NUL /\ ev_hist.fresh
       /\ GetKeyClear => ev_hist'.ret = getkey.k /\ g_pressed_key' = NUL]_vars

\* C29: the event "D" was latched between the call's read of "1" and its
\* clear; the call returned "1" and "D" is gone without having been returned
C29_Erased ==
    /\ ev_hist.erased
    /\ ev_hist.ret = "1"
    /\ g_pressed_key = NUL
    /\ kscan.last_valid_key = "D"

\* the commands behind the session test
PrivVerbs == {"NEWPASS", "ADDID", "DELID", "ADMINPASS", "STATUS"}

\* C26: unless a LOGIN with the admin password of that moment has succeeded
\* since the last reset, a step other than main's Storage_Init and a reset
\* (that is: a command, a tick, a motion edge) changes neither the cache nor
\* the sector and starts no Save in the handler; a command other than LOGIN
\* is then refused with ACCESS DENIED; a Save run by the handler has a login
\* before it.
C26_Gated ==
    [][/\ (~irq_hist.login_ok /\ cpu.save = "idle" /\ cpu'.main = cpu.main
             /\ op_name' # "reset") =>
            /\ UNCHANGED <<g_cachedConfig, flash>>
            /\ cpu'.handler = "none"
       /\ (~irq_hist.login_ok /\ op_name' \in PrivVerbs) =>
            (op_msg' = "ACCESS DENIED" /\ ~op_ret' /\ ~op_saved')
       /\ cpu'.handler = "UART2" => irq_hist.login_ok
       /\ g_admin_logged_in' = irq_hist'.login_ok]_vars

\* C26 witness: NEWPASS sent before any login has been refused
C26_Witness ==
    /\ op_name = "NEWPASS"
    /\ op_msg = "ACCESS DENIED"
    /\ ~g_admin_logged_in
    /\ storeReady

\* a command sent after a login has changed the PIN
C26_Accepted ==
    /\ op_name = "NEWPASS"
    /\ op_ret
    /\ g_admin_logged_in
    /\ CStr(flash.door_pin) = <<"4", "3", "2", "1">>

\* C24: while Storage_SaveConfig is between __disable_irq() and its return,
\* PRIMASK is set and the only steps taken are its own erase and program (or
\* a reset): no tick, no keypad scan, no motion flag, no command; and when it
\* returns, after a failed erase, a failed program or success, PRIMASK is
\* clear again.
C24_Masked ==
    [][cpu.save # "idle" =>
         /\ cpu.primask
         /\ SaveErase \/ SaveProgram \/ AdminReset
         /\ op_name' # "reset" =>
              /\ UNCHANGED <<g_systemTick, kscan, g_pressed_key, g_pirDetected>>
              /\ UNCHANGED <<g_admin_logged_in, g_buzzerTimeout>>
              /\ cpu'.save = "idle" => ~cpu'.primask]_vars

\* C24 witness: main is inside the Save of Storage_Init, the sector erased and
\* not yet programmed
C24_Witness ==
    /\ cpu.save = "program"
    /\ cpu.handler = "none"
    /\ cpu.primask
    /\ flash = ErasedSector

\* a Save has returned after a failed erase, interrupts enabled
C24_EraseFailed ==
    /\ op_saved
    /\ ~save_ret
    /\ flash.magic_header = STORAGE_MAGIC
    /\ faults > 0
    /\ cpu.save = "idle"
    /\ ~cpu.primask

\* a Save has returned after a failed program, interrupts enabled
C24_ProgramFailed ==
    /\ op_saved
    /\ ~save_ret
    /\ flash.magic_header # STORAGE_MAGIC
    /\ op_name # "reset"
    /\ cpu.save = "idle"
    /\ ~cpu.primask

\* C28 as stated: a store update and its Save run in the main context only,
\* never while an interrupt handler is active.
C28_AsStated == cpu.save # "idle" => cpu.handler = "none"

\* C28: UART2_IRQHandler is inside Storage_SaveConfig for NEWPASS, the cache
\* already changed, the sector erased, the PIT interrupt held off
C28_InHandler ==
    /\ cpu.handler = "UART2"
    /\ cpu.save = "program"
    /\ cpu.job.name = "NEWPASS"
    /\ g_cachedConfig # UsedSector
    /\ flash = ErasedSector

\* the only Save the main context makes is the one of Storage_Init
C28_MainSave == (cpu.save # "idle" /\ cpu.handler = "none") => cpu.job.name = "Storage_Init"

\* C31: a run of sweeps showing the same key raises at most one event however
\* long it lasts, the wrap of g_stable_count from 255 to 0 included; a run
\* that follows an empty sweep (or the reset) raises its event at its 22nd
\* sweep, whether or not the same key was latched before, so it has raised
\* exactly one from then on.
C31_OneEvent ==
    [][g_systemTick' # g_systemTick =>
         /\ ev_hist'.run_events <= 1
         /\ (ev_hist'.run_clean /\ ev_hist'.run_len >= 22) => ev_hist'.run_events = 1
         /\ (ev_hist'.run_clean /\ ev_hist'.run_len = 22 /\ ev_hist.run_len = 21) =>
              (ev_hist'.fired /\ g_pressed_key' = ev_hist'.run_char)
         /\ ev_hist'.run_len > 22 => ~ev_hist'.fired]_vars

\* C31 witness: the key has been held past the wrap of the counter and past
\* the counter's second rise above 20, with one event raised
C31_Witness ==
    /\ ev_hist.wrapped
    /\ kscan.g_stable_count > 20
    /\ held = HoldKey
    /\ ev_hist.run_events = 1
    /\ ~ev_hist.fired

\* the key was released and pressed again, and has raised a second event
C31_Again ==
    /\ ev_hist.again
    /\ ev_hist.fired
    /\ ev_hist.run_events = 1
    /\ g_pressed_key = HoldKey

\* C32: the PIN buffer never holds more than 4 characters (its fill level
\* stays below 5 and byte 4 is only ever the terminator); after a
\* Keypad_CheckPassword call that returns 1, -1 or 2 it is empty; a call made
\* 5000 ms or more after the last consumed key on a non-empty buffer clears
\* it before the key of that call, if any, is appended.
C32_Buffer ==
    [][/\ kp_index' <= PASS_LEN
       /\ kp_buffer'[PASS_LEN + 1] = NUL
       /\ (PinPoll /\ g_pressed_key # NUL /\ key_ret' \in {1, -1, 2}) => kp_index' = 0
       /\ (PinPoll /\ kp_index > 0 /\ g_systemTick - last_key_time_kp >= TIMEOUT_MS) =>
            IF g_pressed_key \in {NUL, "#"}
            THEN kp_index' = 0
            ELSE kp_index' = 1 /\ kp_buffer'[1] = g_pressed_key /\ key_ret' = 0]_vars

\* C32 witness: keys were buffered, and a call made 5000 ms or more after the
\* last of them has cleared them and buffered its own key
C32_Witness ==
    /\ g_systemTick = 10001
    /\ last_key_time_kp = 10001
    /\ kp_index = 1
    /\ keyed = <<"1">>
    /\ key_ret = 0

\* at 4999 ms the buffer is kept: the fourth key completes the PIN
C32_Kept ==
    /\ g_systemTick = 5000
    /\ last_key_time_kp = 5000
    /\ keyed = <<"1", "1", "1", "1">>
    /\ key_ret = 1
    /\ kp_index = 0

\* C33 as stated: throughout STATE_LOCKED the buzzer sounds at maximum
\* volume, its duty being that of Buzzer_On(pitch, MAX_VOLUME) for the pitch
\* set.
C33_AsStated ==
    sec.currentState = "STATE_LOCKED" =>
        /\ buzzerCnV > 0
        /\ buzzerCnV = Buzzer_On(buzzerMOD, MAX_VOLUME).CnV

\* C33, the part that holds: in STATE_LOCKED the volume setting is the maximum
\* and the buzzer is either silent or sounding at that volume
C33_Volume ==
    sec.currentState = "STATE_LOCKED" =>
        /\ sec.alarmVolume = MAX_VOLUME
        /\ buzzerCnV \in {0, Buzzer_On(buzzerMOD, MAX_VOLUME).CnV}

\* C33: 30 ms into the lockout the mute countdown of the last key's beep has
\* run out and Buzzer_Off has silenced the siren
C33_Silent ==
    /\ sec.currentState = "STATE_LOCKED"
    /\ buzzerCnV = 0
    /\ g_buzzerTimeout = 0
    /\ Sub32(g_systemTick, sec.stateEntryTime) = 30

\* the main loop passes that Security_Update begins in STATE_ENTRY_DELAY
\* (no card is shown or removed, something has changed)
EntryDelayPass ==
    /\ sec.currentState = "STATE_ENTRY_DELAY"
    /\ settled
    /\ card' = card

C34_LockedAtDeadline ==
    /\ sec.currentState = "STATE_LOCKED"
    /\ sec.stateEntryTime = g_systemTick
    /\ sec.lastAlarmToggle = g_systemTick
    /\ sec.alarmVolume = MAX_VOLUME

\* the steps in which RFID_Tick has changed the driver's statics
RfidTicked ==
    /\ rfid' # rfid
    /\ rfid' # RFID_GetLastScanResult(rfid).rf

\* C35: an RFID_Tick that finds a command pending for 25 ms or more ends in
\* RFID_IDLE whatever the chip reports, and a pending command is never older
\* than that without the next tick ending it; the state becomes RFID_REQ_SENT
\* only from RFID_IDLE, only with 100 ms or more elapsed since the previous
\* wake command, whose time is then the current tick; that time changes in no
\* other step.
C35_BackToIdle ==
    [][/\ (/\ rfid.state \in {"RFID_REQ_SENT", "RFID_ANTICOLL_SENT"}
           /\ IsTimeout(g_systemTick, rfid.timer, 25))
          => /\ \A ans \in ChipReports :
                   RFID_Tick(g_systemTick, rfid, ans, card).state = "RFID_IDLE"
             /\ RfidTicked => rfid'.state = "RFID_IDLE"
       /\ (/\ rfid.state \in {"RFID_REQ_SENT", "RFID_ANTICOLL_SENT"}
           /\ rfid'.state = rfid.state)
          => /\ rfid'.timer = rfid.timer
             /\ ~RfidTicked
       /\ (rfid'.state = "RFID_REQ_SENT" /\ rfid.state # "RFID_REQ_SENT")
          => /\ rfid.state = "RFID_IDLE"
             /\ Sub32(g_systemTick, rfid.next_scan_time) >= 100
             /\ rfid'.next_scan_time = g_systemTick
             /\ rfid'.timer = g_systemTick
       /\ rfid'.next_scan_time # rfid.next_scan_time
          => rfid'.state = "RFID_REQ_SENT" /\ rfid.state = "RFID_IDLE"
       /\ (rfid'.state = "RFID_ANTICOLL_SENT" /\ rfid.state # "RFID_ANTICOLL_SENT")
          => /\ rfid.state = "RFID_REQ_SENT"
             /\ rfid'.timer = g_systemTick]_vars

\* C35: an anticollision answered exactly 25 ms after it was sent has been
\* dropped, with the card in the field and not yet read
C35_Witness ==
    /\ rfid.state = "RFID_IDLE"
    /\ card # NoCard
    /\ ~card_read
    /\ ~card_steady
    /\ Sub32(g_systemTick, rfid.timer) = 25
    /\ rfid.timer # rfid.next_scan_time

\* C35: a second wake command has gone out exactly 100 ms after the first
C35_NextWake ==
    /\ rfid.state = "RFID_REQ_SENT"
    /\ rfid.next_scan_time = g_systemTick
    /\ g_systemTick = 200

\* no motion edge, new-card flag or key event is latched
NothingLatched ==
    /\ ~g_pirDetected
    /\ rfid.result = 0
    /\ g_pressed_key = NUL

\* C36: STATE_ARMED is entered only from STATE_EXIT_DELAY, in a pass with
\* 10000 ms elapsed since that state was entered, and the pass leaves no
\* motion edge, new-card flag or key event latched; a pass begun in
\* STATE_ARMED with none of them latched, no card in the field and no new key
\* or motion leaves the state as it is, whatever was typed or sensed before
\* arming.
C36_Arming ==
    [][/\ (sec'.currentState = "STATE_ARMED" /\ sec.currentState # "STATE_ARMED")
          => /\ sec.currentState = "STATE_EXIT_DELAY"
             /\ IsTimeout(g_systemTick', sec.stateEntryTime, EXIT_DELAY_MS)
             /\ NothingLatched'
             /\ ledAlarm' = FALSE
       /\ (/\ sec.currentState = "STATE_ARMED"
           /\ NothingLatched
           /\ g_systemTick > QuietFrom
           /\ card = NoCard)
          => /\ sec'.currentState = "STATE_ARMED"
             /\ sec'.failedAttempts = sec.failedAttempts
             /\ servo' = servo]_vars

\* C36: the system has armed itself at the end of the exit delay in a pass
\* that found a motion edge and a key event latched, and PIN digits typed
\* before it was disarmed are still in the buffer
C36_Witness ==
    /\ sec.currentState = "STATE_ARMED"
    /\ g_systemTick > QuietFrom
    /\ Sub32(g_systemTick, sec.stateEntryTime) >= EXIT_DELAY_MS
    /\ kp_index > 0
    /\ NothingLatched

\* C36: the exit delay is running with a motion edge and a key event latched
\* and no more input to come
C36_Pending ==
    /\ sec.currentState = "STATE_EXIT_DELAY"
    /\ g_pirDetected
    /\ g_pressed_key # NUL
    /\ g_systemTick = QuietFrom
    /\ kp_index > 0

\* C36, at initialization: a restart leaves the system in STATE_ARMED with no
\* motion edge, new-card flag or key event latched
C36_AtInit ==
    [][settled /\ ~settled' => sec'.currentState = "STATE_ARMED" /\ NothingLatched']_vars

\* C37: the lock is open only in STATE_DISARMED, in a visit begun by a Valid
\* result, after the one Servo_Open call of that visit and before its
\* Servo_Close; no visit to STATE_DISARMED sees a second Servo_Open, every
\* visit is begun by a Valid result, and in every other state the lock is
\* closed.
C37_Lock ==
    /\ door.opens <= 1
    /\ sec.currentState = "STATE_DISARMED" => door.valid
    /\ sec.currentState # "STATE_DISARMED" => servo = "closed" /\ door = NoDoor
    /\ servo = "open" =>
          /\ sec.currentState = "STATE_DISARMED"
          /\ sec.doorUnlockedMsg
          /\ ~sec.waitingForAutoLock
          /\ ~lock_closed
          /\ door.opens = 1
    /\ door.opens = 1 => sec.doorUnlockedMsg
    /\ lock_closed => servo = "closed" /\ sec.currentState = "STATE_DISARMED"

\* C37: the lock has closed again in a visit to STATE_DISARMED that is still
\* under way, after having been opened once
C37_Witness ==
    /\ sec.currentState = "STATE_DISARMED"
    /\ lock_closed
    /\ servo = "closed"
    /\ door = [opens |-> 1, valid |-> TRUE]
    /\ Sub32(g_systemTick, lock_closed_at) >= AUTO_LOCK_DELAY_MS

\* C38 as stated: a pass that consumes a new-card flag which was pending when
\* it began, and resolves an identifier for it, reads the identifier of the
\* card whose detection set the flag (or that of a card detected in this very
\* pass).
C38_AsStated ==
    [][(rfid.result # 0 /\ card_auth' # AUTH_NONE /\ card' = card
          /\ g_cachedConfig' = g_cachedConfig)
          => rfid'.last_uid \in {flag_card, card}]_vars

\* C38, the part that holds: a flag set and consumed in one and the same pass
\* is resolved with the identifier of the card in the field
C38_SamePass ==
    [][(rfid.result = 0 /\ card_auth' # AUTH_NONE /\ card' = card
          /\ g_cachedConfig' = g_cachedConfig)
          => /\ card # NoCard
             /\ rfid'.last_uid = card
             /\ rfid'.result = 0]_vars

\* C38: the new-card flag of a card with a non-zero identifier is pending and
\* the latched identifier has been cleared to zero
C38_Cleared ==
    /\ rfid.result # 0
    /\ flag_card \notin {NoCard, ZeroUid}
    /\ rfid.last_uid = ZeroUid

\* C38: the flag of the authorized card, pending since the settle window, has
\* been resolved with identifier zero and counted as a failed attempt
C38_ZeroResolved ==
    /\ card_auth = AUTH_INVALID
    /\ rfid.last_uid = ZeroUid
    /\ rfid.result = 0
    /\ sec.failedAttempts = 1
    /\ g_systemTick = STARTUP_DELAY_MS
    /\ UidFound(g_cachedConfig, 17)

\* the states in which Security_Update does not call Keypad_CheckPassword
KeypadIdleStates == {"STATE_LOCKED", "STATE_DISARMED", "STATE_EXIT_DELAY"}

\* C39: a pass begun in STATE_LOCKED, STATE_DISARMED or STATE_EXIT_DELAY
\* leaves the PIN buffer, its fill level and the time of its last key as they
\* are, whatever key is latched; when such a spell ends the buffer is empty or
\* its last key is 5000 ms old or older; and a processed pass that calls
\* Keypad_CheckPassword on such a buffer leaves it empty, or holding only the
\* key consumed by that call.
C39_FreshStart ==
    [][card' = card =>
        /\ sec.currentState \in KeypadIdleStates
              => /\ kp_index' = kp_index
                 /\ kp_buffer' = kp_buffer
                 /\ last_key_time_kp' = last_key_time_kp
        /\ (/\ sec.currentState \in {"STATE_LOCKED", "STATE_EXIT_DELAY"}
            /\ sec'.currentState \notin KeypadIdleStates)
              => \/ kp_index' = 0
                 \/ IsTimeout(g_systemTick', last_key_time_kp', TIMEOUT_MS)
        /\ (/\ sec.currentState \notin KeypadIdleStates
            /\ cycle_ran'
            /\ kp_index > 0
            /\ IsTimeout(g_systemTick', last_key_time_kp, TIMEOUT_MS))
              => \/ kp_index' = 0
                 \/ /\ kp_index' = 1
                    /\ last_key_time_kp' = g_systemTick'
                    /\ kp_buffer'[1] \in BruteKeys]_vars

\* C39: a lockout forced by a card has expired with PIN digits typed before
\* it still in the buffer
C39_Witness ==
    /\ sec.currentState = "STATE_TRIGGERED"
    /\ sec.failedAttempts = 0
    /\ sec.lastAlarmToggle = g_systemTick
    /\ kp_index > 0
    /\ IsTimeout(g_systemTick, last_key_time_kp, LOCKOUT_TIME_MS)

\* C39: the system has armed itself again with PIN digits in the buffer that
\* were typed before the card disarmed it
C39_AfterDisarm ==
    /\ sec.currentState = "STATE_ARMED"
    /\ kp_index > 0
    /\ IsTimeout(g_systemTick, last_key_time_kp, EXIT_DELAY_MS)

\* C40 as stated: a PIN comparison that reports a match was given the door
\* PIN as it stood before or after the update made while it ran.
C40_AsStated ==
    (cmp.pc = "done" /\ cmp.input # <<>> /\ cmp.ret) => CStr(cmp.input) \in cmp.pins

\* C40, the parts that hold: a PIN comparison with no update made while it
\* ran reports a match exactly for the door PIN; it reports no match for an
\* input that shares no position with the new PIN when the old one differs
\* from it; and a lookup decides as one of the tables that existed while it
\* ran would.
C40_Rest ==
    /\ (cmp.pc = "done" /\ cmp.input # <<>> /\ Cardinality(cmp.pins) = 1)
          => (cmp.ret <=> CStr(cmp.input) \in cmp.pins)
    /\ (cmp.pc = "done" /\ cmp.input # <<>> /\ cmp.ret)
          => \A k \in 1 .. PASS_LEN : \E q \in cmp.pins : q[k] = cmp.input[k]
    /\ (cmp.pc = "done" /\ cmp.input = <<>>)
          => \E t \in cmp.tables :
                cmp.ret <=> (\E k \in Slots : t[k] # 0 /\ t[k] = cmp.uid)

\* C40: strcmp has reported a match for 1278, its first bytes compared with
\* the old PIN 1234 and its last with the new PIN 5678
C40_Mixture ==
    /\ cmp.pc = "done"
    /\ cmp.ret
    /\ CStr(cmp.input) = <<"1", "2", "7", "8">>
    /\ cmp.pins = {<<"1", "2", "3", "4">>, <<"5", "6", "7", "8">>}

\* C40: a lookup has missed an identifier added, while it ran, to a slot it
\* had passed
C40_LookupMissed ==
    /\ cmp.pc = "done"
    /\ cmp.input = <<>>
    /\ ~cmp.ret
    /\ Cardinality(cmp.tables) = 2
    /\ \E k \in Slots : g_cachedConfig.authorized_uids[k] = cmp.uid

====
